---- MODULE Spec2Model ----
(***************************************************************************)
(* Model of the chart engine of src/src/js/libs.js: the render entry       *)
(* points, the animation loop driven by requestAnimFrame, the per-canvas   *)
(* annotation registry jsGraphAnnotate, the dynamic-display registry, the  *)
(* export handler saveCanvas, the hit test doMouseMove and the scale       *)
(* calculator.                                                             *)
(*                                                                         *)
(* Conventions.  A JavaScript value that may be undefined or NaN is held   *)
(* as a set with at most one element: {} is undefined/NaN, {n} is the      *)
(* number n; every comparison with {} is then false, as in JavaScript.     *)
(* The completion fraction percentAnimComplete of a run is the rational    *)
(* pctNum / Den(config).  Fractions handed to the draw callbacks are held  *)
(* in units of 1/10000, so 0.9999 is 9999 and 1 is One.                    *)
(***************************************************************************)
EXTENDS Integers, Sequences, FiniteSets, TLC

\* ------------------------------------------------------------------ bounds
MaxCharts == 2

\* --------------------------------------------------------------- constants
One == 10000
AlmostOne == 9999

CanvasIds == {"cv1", "cv2"}

DevicePixelRatios == {0, 2}

\* Data handed to the render calls.  Pie data is a list of segment values,
\* Bar data a list of datasets; {} is an undefined data point.
PieDataA == << {1}, {3} >>
BarDataA == << << {2}, {}, {5}, {1} >> >>

Charts ==
  { [tpgraph |-> "Pie", data |-> PieDataA],
    [tpgraph |-> "Bar", data |-> BarDataA] }

\* Caller options.  Keys a caller leaves out come from the defaults.
UserOptions ==
  { [animationSteps |-> 2, animationEasing |-> "easeOutBack",
     annotateDisplay |-> TRUE, onAnimationComplete |-> "function"],
    [animationSteps |-> 3, animationEasing |-> "easeInBack",
     savePng |-> TRUE],
    [animation |-> FALSE, dynamicDisplay |-> TRUE, savePng |-> TRUE,
     onAnimationComplete |-> "function"] }

VARIABLES
  runs,               \* one record per animationLoop call, in start order
  rafQueue,           \* callbacks handed to requestAnimFrame, oldest first
  jsGraphAnnotate,    \* canvas id -> list of annotation entries
  dynamicDisplay,     \* canvas id -> <<>> or the 7-slot record
  dynamicDisplayList, \* canvas ids in order of first dynamic render call
  onscroll,           \* window.onscroll is scrollFunction
  inView,             \* canvas id -> what isScrolledIntoView returns now
  listeners,          \* canvas id -> pointer listeners, in registration order
  canvasImage,        \* canvas id -> <<run, fraction>> last drawn, or Blank
  canvasWidth,        \* canvas id -> backing-store width
  devicePixelRatio,   \* window.devicePixelRatio (0: not defined)
  totvalue,           \* the implicit global written by the radial renderers
  saves,              \* one record per saveCanvas call
  nCharts,            \* number of Chart objects constructed so far
  lastCall,           \* the handler that ran last, with its arguments
  scaleChart,         \* the chart whose scale section ran last
  valueBounds,        \* what its getValueBounds returned
  calculatedScale,    \* the scale it then drew with
  hitChart,           \* the chart under the pointer
  hitAnnotate,        \* its jsGraphAnnotate[ctx.canvas.id], with geometry
  drawn,              \* the paths its final frame filled, in order
  pointer,            \* canvas position of the last pointer event
  annotateDIV,        \* the tooltip element divCursor
  fmtConfig,          \* the config a number is formatted under
  fmtValue,           \* the number, in hundredths
  fmtText,            \* what fmtChartJS returned for it
  fmtBack,            \* what unFormat returned for that
  cfgHeap,            \* the option objects, by reference
  cfgOptions,         \* reference of the caller's options, 0 for none
  cfgBarDefaults,     \* reference held by chart.Bar.defaults
  cfgConfig,          \* reference of the config handed to Bar, 0 before
  startAngle,         \* config.startAngle of a radial renderer
  anglePc,            \* where that renderer is in its two while loops
  hbsHeap,            \* the objects of the page, window first, by reference
  hbsBody,            \* the data attributes of document.body
  hbsLog,             \* what console.log has been given, in order
  hbsCalls,           \* the controller functions called, in order
  hbsScripts,         \* script elements appended to the head, not yet loaded
  hbsLast,            \* the HBS function that ran last, with what it did
  hbsCount            \* calls so far: << namespace, initPage >>

animVars == << runs, rafQueue, jsGraphAnnotate, dynamicDisplay,
               dynamicDisplayList, onscroll, inView, listeners, canvasImage,
               canvasWidth, devicePixelRatio, totvalue, saves, nCharts,
               lastCall >>

scaleVars == << scaleChart, valueBounds, calculatedScale >>

hitVars == << hitChart, hitAnnotate, drawn, pointer, annotateDIV >>

fmtVars == << fmtConfig, fmtValue, fmtText, fmtBack >>

cfgVars == << cfgHeap, cfgOptions, cfgBarDefaults, cfgConfig >>

angleVars == << startAngle, anglePc >>

hbsVars == << hbsHeap, hbsBody, hbsLog, hbsCalls, hbsScripts, hbsLast,
             hbsCount >>

auxVars == << fmtVars, cfgVars, angleVars, hbsVars >>

vars == << animVars, scaleVars, hitVars, auxVars >>

Blank == << 0, 0 >>

\* ------------------------------------------------------------ JS helpers
isNumber(n) == n # {}

Val(n) == CHOOSE x \in n : TRUE

CapValue(valueToCap, maxValue, minValue) ==
  IF isNumber(maxValue) /\ valueToCap > Val(maxValue) THEN Val(maxValue)
  ELSE IF isNumber(minValue) /\ valueToCap < Val(minValue) THEN Val(minValue)
  ELSE valueToCap

mergeChartConfig(defaults, userDefined) ==
  [k \in (DOMAIN defaults) \cup (DOMAIN userDefined) |->
     IF k \in DOMAIN userDefined THEN userDefined[k] ELSE defaults[k]]

\* arr[idx] = v on a JavaScript array (idx counted from 0): overwrite inside,
\* extend at the end, leave undefined holes beyond it.
ArraySet(arr, idx, v) ==
  [k \in 1..(IF idx + 1 > Len(arr) THEN idx + 1 ELSE Len(arr)) |->
     IF k = idx + 1 THEN v
     ELSE IF k <= Len(arr) THEN arr[k] ELSE [kind |-> "undefined"]]

RECURSIVE SumDefined(_)
SumDefined(values) ==
  IF values = << >> THEN 0
  ELSE (IF isNumber(Head(values)) THEN Val(Head(values)) ELSE 0)
       + SumDefined(Tail(values))

DefinedIdx(values) == { i \in 1..Len(values) : isNumber(values[i]) }

\* ------------------------------------------------------- configuration
MAX_VALUE == 1000000

commonOptions ==
  [clearRect |-> TRUE, dynamicDisplay |-> FALSE, annotateDisplay |-> FALSE,
   savePng |-> FALSE]

PieDefaults ==
  [animation |-> TRUE, animationSteps |-> 100,
   animationEasing |-> "easeOutBounce", onAnimationComplete |-> "null"]

BarDefaults ==
  [animation |-> TRUE, animationSteps |-> 60,
   animationEasing |-> "easeOutQuart", onAnimationComplete |-> "null"]

ChartDefaults(tpgraph) ==
  mergeChartConfig(commonOptions,
                   IF tpgraph = "Pie" THEN PieDefaults ELSE BarDefaults)

saveCanvasConfig ==
  [savePng |-> FALSE, annotateDisplay |-> FALSE, animation |-> FALSE,
   dynamicDisplay |-> FALSE]

\* ------------------------------------------------------- animation loop
\* t = p/d, result in units of 1/10000; s = 1.70158 is held as 1702/1000,
\* so s + 1 is 2702/1000 and One/1000 = 10.
easingFunction(name, p, d) ==
  CASE name = "linear" -> (One * p) \div d
    [] name = "easeInBack" ->
         (10 * p * p * (2702 * p - 1702 * d)) \div (d * d * d)
    [] name = "easeOutBack" ->
         One + (10 * (p - d) * (p - d) * (2702 * (p - d) + 1702 * d))
                 \div (d * d * d)

\* CapValue(config.animationSteps, Number.MAX_VALUE, 1)
StepsCap(config) == CapValue(config.animationSteps, {MAX_VALUE}, {1})

\* 1 / animFrameAmount: the denominator of percentAnimComplete
Den(config) == IF config.animation THEN StepsCap(config) ELSE 1

\* A run whose completion fraction starts one frame ahead.
NewRun_oneAhead(canvas, tpgraph, data, config) ==
  [canvas |-> canvas, tpgraph |-> tpgraph, data |-> data, config |-> config,
   cntiter |-> 0,
   pctNum |-> IF config.animation THEN 1 ELSE Den(config),
   annotateCnt |-> 0,
   frames |-> << >>,
   fractions |-> << >>,
   callbacks |-> << >>]

NewRun(canvas, tpgraph, data, config) ==
  [canvas |-> canvas, tpgraph |-> tpgraph, data |-> data, config |-> config,
   cntiter |-> 0,
   pctNum |-> IF config.animation THEN 0 ELSE Den(config),
   annotateCnt |-> 0,
   frames |-> << >>,      \* pctNum at each frame drawn
   fractions |-> << >>,   \* fraction handed to drawData at each frame
   callbacks |-> << >>]   \* per onAnimationComplete call: frames drawn so far

\* The entries drawPieSegments writes on the final frame, in order.
RECURSIVE PieEntries(_, _, _, _, _)
PieEntries(data, r, i, cumvalue, tot) ==
  IF i > Len(data) THEN << >>
  ELSE IF isNumber(data[i])
       THEN << [kind |-> "ARC", run |-> r, i |-> 0, j |-> i - 1,
                value |-> Val(data[i]),
                cumvalue |-> cumvalue + Val(data[i]),
                totvalue |-> tot] >>
            \o PieEntries(data, r, i + 1, cumvalue + Val(data[i]), tot)
       ELSE PieEntries(data, r, i + 1, cumvalue, tot)

Column(datasets, upto, j) ==
  [i \in 1..upto |-> IF j <= Len(datasets[i]) THEN datasets[i][j] ELSE {}]

\* The entries drawBars writes on the final frame, in order.
RECURSIVE BarEntries(_, _, _, _)
BarEntries(datasets, r, i, j) ==
  IF i > Len(datasets) THEN << >>
  ELSE IF j > Len(datasets[i]) THEN BarEntries(datasets, r, i + 1, 1)
  ELSE IF isNumber(datasets[i][j])
       THEN << [kind |-> "RECT", run |-> r, i |-> i - 1, j |-> j - 1,
                value |-> Val(datasets[i][j]),
                cumvalue |-> SumDefined(Column(datasets, i, j)),
                totvalue |-> SumDefined(Column(datasets, Len(datasets), j))] >>
            \o BarEntries(datasets, r, i, j + 1)
       ELSE BarEntries(datasets, r, i, j + 1)

RECURSIVE WriteEntries(_, _, _)
WriteEntries(arr, annotateCnt, entries) ==
  IF entries = << >> THEN arr
  ELSE WriteEntries(ArraySet(arr, annotateCnt, Head(entries)),
                    annotateCnt + 1, Tail(entries))

\* A registry keyed by one fixed name instead of the canvas id.
AnnotateKey_shared(canvas) == "cv1"

\* jsGraphAnnotate[ctx.canvas.id]: the registry slot a renderer writes.
AnnotateKey(canvas) == canvas

\* drawPieSegments / drawBars: only the final frame touches the registry.
drawData(W, r, animationDecimal) ==
  LET run == W.runs[r]
      tot == IF run.tpgraph = "Pie" THEN SumDefined(run.data) ELSE W.totvalue
      entries == IF run.tpgraph = "Pie"
                 THEN PieEntries(run.data, r, 1, 0, tot)
                 ELSE BarEntries(run.data, r, 1, 1)
      key == AnnotateKey(run.canvas)
  IN IF animationDecimal >= One
     THEN [W EXCEPT !.totvalue = tot,
                    !.jsGraphAnnotate[key] =
                        WriteEntries(@, run.annotateCnt, entries),
                    !.runs[r].annotateCnt = @ + Len(entries)]
     ELSE W

\* An animateFrame that hands an overshooting eased value on as it is.
animateFrame_uncapped(W, r) ==
  LET run == W.runs[r]
      cfg == run.config
      eased == IF cfg.animation
               THEN CapValue(easingFunction(cfg.animationEasing, run.pctNum,
                                            Den(cfg)), {}, {0})
               ELSE One
      pc == IF run.cntiter >= StepsCap(cfg) \/ ~cfg.animation THEN One
            ELSE eased
      W1 == [W EXCEPT !.canvasImage[run.canvas] = << r, pc >>,
                      !.runs[r].frames = Append(@, run.pctNum),
                      !.runs[r].fractions = Append(@, pc)]
  IN drawData(W1, r, pc)

animateFrame(W, r) ==
  LET run == W.runs[r]
      cfg == run.config
      eased == IF cfg.animation
               THEN CapValue(easingFunction(cfg.animationEasing, run.pctNum,
                                            Den(cfg)), {}, {0})
               ELSE One
      pc == IF run.cntiter >= StepsCap(cfg) \/ ~cfg.animation THEN One
            ELSE IF eased >= One THEN AlmostOne
            ELSE eased
      W1 == [W EXCEPT !.canvasImage[run.canvas] = << r, pc >>,
                      !.runs[r].frames = Append(@, run.pctNum),
                      !.runs[r].fractions = Append(@, pc)]
  IN drawData(W1, r, pc)

\* A frame counter that forgets to advance the fraction.
NextPercent_noAdvance(run, cnt) ==
  IF cnt = run.config.animationSteps \/ ~run.config.animation
  THEN Den(run.config)
  ELSE run.pctNum

\* percentAnimComplete += animFrameAmount, forced to 1 on the last step.
NextPercent(run, cnt) ==
  IF cnt = run.config.animationSteps \/ ~run.config.animation
  THEN Den(run.config)
  ELSE run.pctNum + 1

\* The stop test written the wrong way round.
LoopContinues_inverted(config, pct) == pct > Den(config)

\* if (percentAnimComplete < 1) requestAnimFrame(animLoop)
LoopContinues(config, pct) == pct < Den(config)

animLoop(W, r) ==
  LET cfg == W.runs[r].config
      cnt == W.runs[r].cntiter + 1
      pct == NextPercent(W.runs[r], cnt)
      W1 == [W EXCEPT !.runs[r].cntiter = cnt, !.runs[r].pctNum = pct]
      W2 == animateFrame(W1, r)
  IN IF LoopContinues(cfg, pct)
     THEN [W2 EXCEPT !.rafQueue = Append(@, r)]
     ELSE IF cfg.onAnimationComplete = "function"
          THEN [W2 EXCEPT !.runs[r].callbacks =
                            Append(@, [frames |-> Len(W2.runs[r].frames),
                                       pctNum |-> pct])]
          ELSE W2

animationLoop(W, canvas, tpgraph, data, config) ==
  LET r == Len(W.runs) + 1
      W1 == [W EXCEPT !.runs = Append(@, NewRun(canvas, tpgraph, data, config))]
  IN IF config.clearRect
     THEN [W1 EXCEPT !.rafQueue = Append(@, r)]
     ELSE animLoop(W1, r)

\* ------------------------------------------------------ dynamic display
\* dynamicDisplay[id][k] of the source is Slot(rec, k).
Slot(rec, k) == rec[k + 1]

\* The gate of dynamicFunction: not yet in view, or already rendered.
GateShut_inViewIgnored(rec) == Slot(rec, 2) = TRUE

GateShut(rec) == Slot(rec, 1) = FALSE \/ Slot(rec, 2) = TRUE

\* A dynamicFunction that makes a new record on every call.
dynamicFunction_recordReplaced(W, data, config, canvas, tpgraph) ==
  IF config.dynamicDisplay
  THEN LET W1 == [W EXCEPT
                    !.dynamicDisplayList =
                       IF W.dynamicDisplay[canvas] = << >>
                       THEN Append(@, canvas) ELSE @,
                    !.dynamicDisplay[canvas] =
                       << canvas, W.inView[canvas], FALSE, data, config,
                          canvas, tpgraph >>,
                    !.onscroll = TRUE]
           rec == W1.dynamicDisplay[canvas]
       IN IF GateShut(rec)
          THEN << W1, FALSE >>
          ELSE << [W1 EXCEPT !.dynamicDisplay[canvas][3] = TRUE], TRUE >>
  ELSE << W, TRUE >>

\* Returns << world, result >>.
dynamicFunction(W, data, config, canvas, tpgraph) ==
  IF config.dynamicDisplay
  THEN LET W1 == IF W.dynamicDisplay[canvas] = << >>
                 THEN [W EXCEPT
                         !.dynamicDisplayList = Append(@, canvas),
                         !.dynamicDisplay[canvas] =
                            << canvas, W.inView[canvas], FALSE, data, config,
                               canvas, tpgraph >>,
                         !.onscroll = TRUE]
                 ELSE W
           rec == W1.dynamicDisplay[canvas]
       IN IF GateShut(rec)
          THEN << W1, FALSE >>
          ELSE << [W1 EXCEPT !.dynamicDisplay[canvas][3] = TRUE], TRUE >>
  ELSE << W, TRUE >>

\* ------------------------------------------------------------ renderers
\* A defMouse that puts its pointer listener in the place of the one a
\* render before it registered.
defMouse_oneListener(W, canvas, data, config, tpgraph) ==
  LET annotate == IF config.annotateDisplay = TRUE
                  THEN << [kind |-> "annotate", config |-> config] >>
                  ELSE << >>
      save == IF config.savePng
              THEN << [kind |-> "savePng", data |-> data, config |-> config,
                       tpgraph |-> tpgraph] >>
              ELSE << >>
  IN [W EXCEPT !.listeners[canvas] =
        (IF annotate = << >> THEN @
         ELSE SelectSeq(@, LAMBDA l : l.kind # "annotate"))
        \o annotate \o save]

defMouse(W, canvas, data, config, tpgraph) ==
  LET annotate == IF config.annotateDisplay = TRUE
                  THEN << [kind |-> "annotate", config |-> config] >>
                  ELSE << >>
      save == IF config.savePng
              THEN << [kind |-> "savePng", data |-> data, config |-> config,
                       tpgraph |-> tpgraph] >>
              ELSE << >>
  IN [W EXCEPT !.listeners[canvas] = @ \o annotate \o save]

\* setRect: clear(ctx) and clearRect over the whole canvas.
setRect(W, canvas) == [W EXCEPT !.canvasImage[canvas] = Blank]

\* A renderer that leaves the annotation list of the canvas as it finds it.
Renderer_listKept(W, canvas, tpgraph, data, config) ==
  LET d == dynamicFunction(W, data, config, canvas, tpgraph)
      W2 == defMouse(d[1], canvas, data, config, tpgraph)
      W3 == setRect(W2, canvas)
  IN IF ~d[2] THEN d[1]
     ELSE animationLoop(W3, canvas, tpgraph, data, config)

\* Pie(data, config, ctx) and Bar(data, config, ctx) up to animationLoop.
Renderer(W, canvas, tpgraph, data, config) ==
  LET d == dynamicFunction(W, data, config, canvas, tpgraph)
      W1 == [d[1] EXCEPT !.jsGraphAnnotate[AnnotateKey(canvas)] = << >>]
      W2 == defMouse(W1, canvas, data, config, tpgraph)
      W3 == setRect(W2, canvas)
  IN IF ~d[2] THEN d[1]
     ELSE animationLoop(W3, canvas, tpgraph, data, config)

\* A constructor that resizes the backing store of a canvas only the
\* first time.
Chart_sizedOnce(W, canvas) ==
  IF W.devicePixelRatio # 0 /\ W.canvasWidth[canvas] = 1
  THEN [W EXCEPT !.nCharts = @ + 1,
                 !.canvasWidth[canvas] = @ * W.devicePixelRatio,
                 !.canvasImage[canvas] = Blank]
  ELSE [W EXCEPT !.nCharts = @ + 1]

\* window.Chart = function (context): the backing store is resized, which
\* also clears it, whenever window.devicePixelRatio is truthy.
Chart(W, canvas) ==
  IF W.devicePixelRatio # 0
  THEN [W EXCEPT !.nCharts = @ + 1,
                 !.canvasWidth[canvas] = @ * W.devicePixelRatio,
                 !.canvasImage[canvas] = Blank]
  ELSE [W EXCEPT !.nCharts = @ + 1]

\* new Chart(ctx).Pie(data, options) / .Bar(data, options)
ChartMethod(W, canvas, tpgraph, data, options) ==
  LET config == mergeChartConfig(ChartDefaults(tpgraph), options)
  IN Renderer(Chart(W, canvas), canvas, tpgraph, data, config)

\* ----------------------------------------------------------- saveCanvas
\* An export configuration that leaves clearRect as the chart had it.
SavePngConfig_clearRectKept(config) ==
  mergeChartConfig(config, saveCanvasConfig)

SavePngConfig(config) ==
  [mergeChartConfig(config, saveCanvasConfig) EXCEPT !.clearRect = FALSE]

saveCanvas(W, canvas, data, config, tpgraph) ==
  LET cvSave == W.canvasImage[canvas]
      savePngConfig == SavePngConfig(config)
      W1 == ChartMethod(W, canvas, tpgraph, data, savePngConfig)
      href == W1.canvasImage[canvas]
  IN [W1 EXCEPT !.canvasImage[canvas] = cvSave,
                !.saves = Append(@, [canvas |-> canvas, cvSave |-> cvSave,
                                     href |-> href,
                                     runsBefore |-> Len(W.runs),
                                     runsAfter |-> Len(W1.runs)])]

\* ------------------------------------------------------- scrollFunction
RECURSIVE scrollLoop(_, _)
scrollLoop(W, i) ==
  IF i > Len(W.dynamicDisplayList) THEN W
  ELSE LET id == W.dynamicDisplayList[i]
           rec == W.dynamicDisplay[id]
       IN IF W.inView[Slot(rec, 5)] /\ Slot(rec, 2) = FALSE
          THEN scrollLoop(
                 ChartMethod([W EXCEPT !.dynamicDisplay[id][2] = TRUE],
                             id, Slot(rec, 6), Slot(rec, 3), Slot(rec, 4)),
                 i + 1)
          ELSE scrollLoop(W, i + 1)

scrollFunction(W) == scrollLoop(W, 1)

\* ------------------------------------------------------------ the state
World ==
  [runs |-> runs, rafQueue |-> rafQueue, jsGraphAnnotate |-> jsGraphAnnotate,
   dynamicDisplay |-> dynamicDisplay,
   dynamicDisplayList |-> dynamicDisplayList, onscroll |-> onscroll,
   inView |-> inView, listeners |-> listeners, canvasImage |-> canvasImage,
   canvasWidth |-> canvasWidth, devicePixelRatio |-> devicePixelRatio,
   totvalue |-> totvalue, saves |-> saves, nCharts |-> nCharts]

Becomes(W) ==
  /\ runs' = W.runs
  /\ rafQueue' = W.rafQueue
  /\ jsGraphAnnotate' = W.jsGraphAnnotate
  /\ dynamicDisplay' = W.dynamicDisplay
  /\ dynamicDisplayList' = W.dynamicDisplayList
  /\ onscroll' = W.onscroll
  /\ inView' = W.inView
  /\ listeners' = W.listeners
  /\ canvasImage' = W.canvasImage
  /\ canvasWidth' = W.canvasWidth
  /\ devicePixelRatio' = W.devicePixelRatio
  /\ totvalue' = W.totvalue
  /\ saves' = W.saves
  /\ nCharts' = W.nCharts

AnimInit ==
  /\ runs = << >>
  /\ rafQueue = << >>
  /\ jsGraphAnnotate = [c \in CanvasIds |-> << >>]
  /\ dynamicDisplay = [c \in CanvasIds |-> << >>]
  /\ dynamicDisplayList = << >>
  /\ onscroll = FALSE
  /\ inView \in [CanvasIds -> BOOLEAN]
  /\ listeners = [c \in CanvasIds |-> << >>]
  /\ canvasImage = [c \in CanvasIds |-> Blank]
  /\ canvasWidth = [c \in CanvasIds |-> 1]
  /\ devicePixelRatio \in DevicePixelRatios
  /\ totvalue = 0
  /\ saves = << >>
  /\ nCharts = 0
  /\ lastCall = [op |-> "init"]

\* No axis chart has been measured.
ScaleIdle ==
  /\ scaleChart = [tpgraph |-> "none"]
  /\ valueBounds = [tpgraph |-> "none"]
  /\ calculatedScale = [tpgraph |-> "none"]

\* No chart is under the pointer and the tooltip is empty.
HitIdle ==
  /\ hitChart = [tpgraph |-> "none"]
  /\ hitAnnotate = << >>
  /\ drawn = << >>
  /\ pointer = << >>
  /\ annotateDIV = [innerHTML |-> {}, moved |-> << >>]

\* No number has been formatted.
FmtIdle ==
  /\ fmtConfig = [tpgraph |-> "none"]
  /\ fmtValue = 0
  /\ fmtText = [type |-> "none"]
  /\ fmtBack = [type |-> "none"]

\* No option object exists.
CfgIdle ==
  /\ cfgHeap = << >>
  /\ cfgOptions = 0
  /\ cfgBarDefaults = 0
  /\ cfgConfig = 0

\* No radial renderer is running.
AngleIdle ==
  /\ startAngle = << 0, 0 >>
  /\ anglePc = "idle"

\* No page has been set up for HBS.
HbsIdle ==
  /\ hbsHeap = << >>
  /\ hbsBody = [section |-> "none"]
  /\ hbsLog = << >>
  /\ hbsCalls = << >>
  /\ hbsScripts = << >>
  /\ hbsLast = [op |-> "none"]
  /\ hbsCount = << 0, 0 >>

AuxIdle == FmtIdle /\ CfgIdle /\ AngleIdle /\ HbsIdle

Init == AnimInit /\ ScaleIdle /\ HitIdle /\ AuxIdle

\* The page calls new Chart(ctx).Pie(...) or .Bar(...) on a canvas.
RenderCall(canvas, chart, options) ==
  /\ nCharts < MaxCharts
  /\ Becomes(ChartMethod(World, canvas, chart.tpgraph, chart.data, options))
  /\ lastCall' = [op |-> "render", canvas |-> canvas, chart |-> chart,
                  options |-> options]
  /\ UNCHANGED << scaleVars, hitVars, auxVars >>

\* The platform runs the oldest requestAnimFrame callback.
FrameCallback ==
  /\ rafQueue # << >>
  /\ Becomes(animLoop([World EXCEPT !.rafQueue = Tail(@)], Head(rafQueue)))
  /\ lastCall' = [op |-> "frame", run |-> Head(rafQueue)]
  /\ UNCHANGED << scaleVars, hitVars, auxVars >>

ScrollTargets(view) ==
  { i \in 1..Len(dynamicDisplayList) :
      /\ view[dynamicDisplayList[i]]
      /\ Slot(dynamicDisplay[dynamicDisplayList[i]], 2) = FALSE }

\* The user scrolls: the viewport changes and window.onscroll, if set, runs.
ScrollEvent(view) ==
  /\ view # inView
  /\ nCharts + Cardinality(ScrollTargets(view)) <= MaxCharts
  /\ Becomes(IF onscroll THEN scrollFunction([World EXCEPT !.inView = view])
                         ELSE [World EXCEPT !.inView = view])
  /\ lastCall' = [op |-> "scroll"]
  /\ UNCHANGED << scaleVars, hitVars, auxVars >>

\* A pointer event reaches the k-th listener of a canvas, a savePng one.
SaveClick(canvas, k) ==
  /\ nCharts < MaxCharts
  /\ k \in 1..Len(listeners[canvas])
  /\ listeners[canvas][k].kind = "savePng"
  /\ LET l == listeners[canvas][k]
     IN Becomes(saveCanvas(World, canvas, l.data, l.config, l.tpgraph))
  /\ lastCall' = [op |-> "save", canvas |-> canvas]
  /\ UNCHANGED << scaleVars, hitVars, auxVars >>

Next ==
  \/ \E c \in CanvasIds, chart \in Charts, o \in UserOptions :
       RenderCall(c, chart, o)
  \/ FrameCallback
  \/ \E view \in [CanvasIds -> BOOLEAN] : ScrollEvent(view)
  \/ \E c \in CanvasIds, k \in 1..(2 * MaxCharts) : SaveClick(c, k)

Spec == Init /\ [][Next]_vars

\* ------------------------------------------------------------------------
\* Value bounds and scale of the axis charts
\*
\* A bound is a pair << n, e >> standing for the double n + e * 2^-1074:
\* Number.MIN_VALUE is << 0, 1 >>, and next to a non-zero n the e part is
\* lost to rounding.  Data values are integers; a step value is a fraction
\* << numerator, denominator >>.
\* ------------------------------------------------------------------------
MaxLen == 3

ScaleValues == {-5, -2, 0, 2, 5, 300, 2000}

Num(n) == << n, 0 >>

MIN_VALUE == << 0, 1 >>

Norm(n, e) == IF n # 0 THEN << n, 0 >> ELSE << 0, e >>

NumLess(a, b) == a[1] < b[1] \/ (a[1] = b[1] /\ a[2] < b[2])

NumSub(a, b) == Norm(a[1] - b[1], a[2] - b[2])

NumTimes(a, k) == Norm(a[1] * k, a[2] * k)

\* Math.abs(a) < 0.00000001, for an integer n
NearZero(a) == a[1] = 0

\* Max([a, b])
Max(a, b) == IF NumLess(a, b) THEN b ELSE a

Pow10(k) == IF k <= 0 THEN 1 ELSE 10 ^ k

RECURSIVE Log10Floor(_)
Log10Floor(val) == IF val < 10 THEN 0 ELSE 1 + Log10Floor(val \div 10)

\* The powers of ten below MAX_VALUE at which Math.log(val) / Math.LN10
\* evaluates to just under the integer (2.9999999999999996 for 1000).
RoundedDownPowers == {1000, 1000000}

\* Math.floor(Math.log(val) / Math.LN10), for an integer val > 0
calculateOrderOfMagnitude(val) ==
  IF val \in RoundedDownPowers THEN Log10Floor(val) - 1 ELSE Log10Floor(val)

\* Math.floor(a / p) and Math.ceil(a / p) for p a power of ten; a multiple of
\* MIN_VALUE divided by 10 or more underflows to zero.
FloorDiv(a, p) ==
  IF a[1] # 0 \/ a[2] = 0 THEN a[1] \div p
  ELSE IF a[2] < 0 /\ p = 1 THEN -1 ELSE 0

CeilDiv(a, p) ==
  IF a[1] # 0 \/ a[2] = 0 THEN -((-a[1]) \div p)
  ELSE IF a[2] > 0 /\ p = 1 THEN 1 ELSE 0

\* Math.round(num / den), den > 0
Round(num, den) == (2 * num + den) \div (2 * den)

RECURSIVE Flatten(_)
Flatten(datasets) ==
  IF datasets = << >> THEN << >>
  ELSE Head(datasets) \o Flatten(Tail(datasets))

\* The two comparisons of the scan loop; 1*undefined is NaN and compares
\* false both ways.
RECURSIVE ScanBounds(_, _, _)
ScanBounds(values, upperValue, lowerValue) ==
  IF values = << >> THEN << upperValue, lowerValue >>
  ELSE LET v == Head(values)
       IN IF ~isNumber(v)
          THEN ScanBounds(Tail(values), upperValue, lowerValue)
          ELSE ScanBounds(Tail(values),
                 IF NumLess(upperValue, Num(Val(v)))
                 THEN Num(Val(v)) ELSE upperValue,
                 IF NumLess(Num(Val(v)), lowerValue)
                 THEN Num(Val(v)) ELSE lowerValue)

\* scaleHeight and labelHeight are declared by every axis renderer and
\* assigned by none before getValueBounds reads them: both are undefined.
scaleHeight == {}

labelHeight == {}

\* Math.floor(scaleHeight / (labelHeight * 0.66))
MaxStepsOf(sh, lh) ==
  IF sh = {} \/ lh = {} THEN {}
  ELSE { (100 * Val(sh)) \div (66 * Val(lh)) }

\* Math.floor(scaleHeight / labelHeight * 0.5)
MinStepsOf(sh, lh) ==
  IF sh = {} \/ lh = {} THEN {}
  ELSE { Val(sh) \div (2 * Val(lh)) }

\* getValueBounds of Bar and Line, config.graphMin and config.graphMax unset
getValueBounds(data) ==
  LET scan == ScanBounds(Flatten(data), MIN_VALUE, Num(MAX_VALUE))
      degenerate == NearZero(NumSub(scan[1], scan[2]))
  IN [maxValue |-> IF degenerate
                   THEN Max(NumTimes(scan[1], 2), Num(1)) ELSE scan[1],
      minValue |-> IF degenerate THEN Num(0) ELSE scan[2],
      maxDailySteps |-> MaxStepsOf(scaleHeight, labelHeight),
      minSteps |-> MinStepsOf(scaleHeight, labelHeight)]

\* data.datasets[k].data[j], undefined beyond the end of the array
At(datasets, k, j) ==
  IF k <= Len(datasets) /\ j <= Len(datasets[k]) THEN datasets[k][j] ELSE {}

\* while (k > 0): the datasets k down to 1 (counted from 0) added to temp
\* one at a time, each running total compared with the bounds.
RECURSIVE StackedSums(_, _, _, _)
StackedSums(datasets, k, j, temp) ==
  IF k = 0 THEN << >>
  ELSE IF isNumber(At(datasets, k + 1, j))
       THEN << {temp + Val(At(datasets, k + 1, j))} >>
              \o StackedSums(datasets, k - 1, j,
                             temp + Val(At(datasets, k + 1, j)))
       ELSE StackedSums(datasets, k - 1, j, temp)

\* The running totals of one pass of the inner loop body, for dataset i
\* (counted from 0) and category j: dataset 0 first, then i down to 1.
CategoryTemps(datasets, i, j) ==
  IF isNumber(At(datasets, 1, j))
  THEN << At(datasets, 1, j) >>
         \o StackedSums(datasets, i, j, Val(At(datasets, 1, j)))
  ELSE StackedSums(datasets, i, j, 0)

RECURSIVE StackedTemps(_, _, _)
StackedTemps(datasets, i, j) ==
  IF i >= Len(datasets) THEN << >>
  ELSE IF j > Len(datasets[i + 1]) THEN StackedTemps(datasets, i + 1, 1)
  ELSE CategoryTemps(datasets, i, j) \o StackedTemps(datasets, i, j + 1)

\* getValueBounds of StackedBar, config.graphMin and config.graphMax unset
StackedBar_getValueBounds(data) ==
  LET scan == ScanBounds(StackedTemps(data, 0, 1), MIN_VALUE, Num(MAX_VALUE))
      degenerate == NearZero(NumSub(scan[1], scan[2]))
  IN [maxValue |-> IF degenerate
                   THEN Max(NumTimes(scan[1], 2), Num(1)) ELSE scan[1],
      minValue |-> IF degenerate THEN Num(0) ELSE scan[2],
      maxDailySteps |-> MaxStepsOf(scaleHeight, labelHeight),
      minSteps |-> MinStepsOf(scaleHeight, labelHeight)]

\* getValueBounds of HorizontalStackedBar: the same scan
HorizontalStackedBar_getValueBounds(data) ==
  LET scan == ScanBounds(StackedTemps(data, 0, 1), MIN_VALUE, Num(MAX_VALUE))
      degenerate == NearZero(NumSub(scan[1], scan[2]))
  IN [maxValue |-> IF degenerate
                   THEN Max(NumTimes(scan[1], 2), Num(1)) ELSE scan[1],
      minValue |-> IF degenerate THEN Num(0) ELSE scan[2],
      maxDailySteps |-> MaxStepsOf(scaleHeight, labelHeight),
      minSteps |-> MinStepsOf(scaleHeight, labelHeight)]

\* getValueBounds of HorizontalBar: the scan of Bar
HorizontalBar_getValueBounds(data) == getValueBounds(data)

\* getValueBounds of Radar: the scan of Bar, over data.datasets[i].data[j]
Radar_getValueBounds(data) ==
  LET scan == ScanBounds(Flatten(data), MIN_VALUE, Num(MAX_VALUE))
      degenerate == NearZero(NumSub(scan[1], scan[2]))
  IN [maxValue |-> IF degenerate
                   THEN Max(NumTimes(scan[1], 2), Num(1)) ELSE scan[1],
      minValue |-> IF degenerate THEN Num(0) ELSE scan[2],
      maxDailySteps |-> MaxStepsOf(scaleHeight, labelHeight),
      minSteps |-> MinStepsOf(scaleHeight, labelHeight)]

\* getValueBounds of PolarArea: one loop, over data[i].value
PolarArea_getValueBounds(data) ==
  LET scan == ScanBounds(data, MIN_VALUE, Num(MAX_VALUE))
      degenerate == NearZero(NumSub(scan[1], scan[2]))
  IN [maxValue |-> IF degenerate
                   THEN Max(NumTimes(scan[1], 2), Num(1)) ELSE scan[1],
      minValue |-> IF degenerate THEN Num(0) ELSE scan[2],
      maxDailySteps |-> MaxStepsOf(scaleHeight, labelHeight),
      minSteps |-> MinStepsOf(scaleHeight, labelHeight)]

LoopFuel == 12

\* A loop whose else branch recomputes the count and forgets to double.
RECURSIVE ScaleLoop_noDouble(_, _, _, _, _, _)
ScaleLoop_noDouble(graphRange, stepValue, numberOfSteps, minSteps, maxSteps, fuel) ==
  LET below == minSteps # {} /\ numberOfSteps < Val(minSteps)
      above == maxSteps # {} /\ numberOfSteps > Val(maxSteps)
      halved == << stepValue[1], 2 * stepValue[2] >>
  IN IF fuel = 0 \/ ~(below \/ above)
     THEN << stepValue, numberOfSteps >>
     ELSE IF below
          THEN ScaleLoop_noDouble(graphRange, halved,
                                  Round(graphRange * halved[2], halved[1]),
                                  minSteps, maxSteps, fuel - 1)
          ELSE ScaleLoop_noDouble(graphRange, stepValue,
                                  Round(graphRange * stepValue[2],
                                        stepValue[1]),
                                  minSteps, maxSteps, fuel - 1)

\* The halve-or-double loop; a comparison with NaN is false.
RECURSIVE ScaleLoop(_, _, _, _, _, _)
ScaleLoop(graphRange, stepValue, numberOfSteps, minSteps, maxSteps, fuel) ==
  LET below == minSteps # {} /\ numberOfSteps < Val(minSteps)
      above == maxSteps # {} /\ numberOfSteps > Val(maxSteps)
      halved == << stepValue[1], 2 * stepValue[2] >>
      doubled == << 2 * stepValue[1], stepValue[2] >>
  IN IF fuel = 0 \/ ~(below \/ above)
     THEN << stepValue, numberOfSteps >>
     ELSE IF below
          THEN ScaleLoop(graphRange, halved,
                         Round(graphRange * halved[2], halved[1]),
                         minSteps, maxSteps, fuel - 1)
          ELSE ScaleLoop(graphRange, doubled,
                         Round(graphRange * doubled[2], doubled[1]),
                         minSteps, maxSteps, fuel - 1)

calculateScale(config, maxSteps, minSteps, maxValue, minValue) ==
  LET valueRange == NumSub(maxValue, minValue)
      rangeOrderOfMagnitude ==
        IF ~config.logarithmic
        THEN calculateOrderOfMagnitude(valueRange[1])
        ELSE calculateOrderOfMagnitude(
               Pow10(calculateOrderOfMagnitude(maxValue[1]) + 1))
             - calculateOrderOfMagnitude(
                 Pow10(calculateOrderOfMagnitude(minValue[1])))
      graphMin ==
        IF ~config.logarithmic
        THEN FloorDiv(minValue, Pow10(rangeOrderOfMagnitude))
               * Pow10(rangeOrderOfMagnitude)
        ELSE Pow10(calculateOrderOfMagnitude(minValue[1]))
      graphMax ==
        IF ~config.logarithmic
        THEN CeilDiv(maxValue, Pow10(rangeOrderOfMagnitude))
               * Pow10(rangeOrderOfMagnitude)
        ELSE Pow10(calculateOrderOfMagnitude(maxValue[1]) + 1)
      graphRange == graphMax - graphMin
      stepValue == << Pow10(rangeOrderOfMagnitude), 1 >>
      numberOfSteps == Round(graphRange, stepValue[1])
      loop == ScaleLoop(graphRange, stepValue, numberOfSteps,
                        minSteps, maxSteps, LoopFuel)
  IN [steps |-> IF config.logarithmic THEN rangeOrderOfMagnitude
                ELSE loop[2],
      stepValue |-> IF config.logarithmic THEN stepValue ELSE loop[1],
      graphMin |-> graphMin,
      graphMax |-> graphMax,
      maxValue |-> maxValue]

\* The renderer settles config.logarithmic between the two calls: off for a
\* minimum that is not positive, and off for 'fuzzy' over fewer than four
\* orders of magnitude.
Logarithmic(config, bounds) ==
  IF config.logarithmic = "false" \/ ~NumLess(Num(0), bounds.minValue)
  THEN FALSE
  ELSE IF config.logarithmic = "fuzzy"
       THEN ~(calculateOrderOfMagnitude(
                Pow10(calculateOrderOfMagnitude(bounds.maxValue[1]) + 1))
              - calculateOrderOfMagnitude(
                  Pow10(calculateOrderOfMagnitude(bounds.minValue[1]))) < 4)
       ELSE TRUE

RECURSIVE SeqsUpTo(_, _)
SeqsUpTo(S, n) ==
  IF n = 0 THEN { << >> }
  ELSE SeqsUpTo(S, n - 1)
       \cup { Append(q, x) : q \in { t \in SeqsUpTo(S, n - 1) :
                                        Len(t) = n - 1 }, x \in S }

MaxCats == 2

StackValues == {-2, 5}

\* Datasets of one axis chart: a single dataset for Bar, Line and
\* HorizontalBar, two datasets over the same categories for the stacked
\* charts; at least one value defined.  Radar has a single dataset as well,
\* and the segment values of PolarArea are held as data[1].
SingleData ==
  { << d >> : d \in { q \in SeqsUpTo({ {v} : v \in ScaleValues } \cup { {} },
                                     MaxLen) :
                        \E k \in 1..Len(q) : isNumber(q[k]) } }

StackedData ==
  UNION { { << d1, d2 >> :
              d1 \in [1..n -> { {v} : v \in StackValues } \cup { {} }],
              d2 \in [1..n -> { {v} : v \in StackValues } \cup { {} }] } :
          n \in 1..MaxCats }

ScaleCharts ==
  { [tpgraph |-> t, data |-> d, logarithmic |-> l] :
      t \in {"Bar", "Line"}, d \in SingleData,
      l \in {"false", "true", "fuzzy"} }
  \cup
  { c \in { [tpgraph |-> "HorizontalBar", data |-> d, logarithmic |-> l] :
              d \in SingleData, l \in {"false", "true", "fuzzy"} } :
      c.logarithmic = "false"
        \/ \A k \in 1..Len(c.data[1]) :
             isNumber(c.data[1][k]) => Val(c.data[1][k]) > 0 }
  \cup
  { c \in { [tpgraph |-> t, data |-> d, logarithmic |-> l] :
              t \in {"StackedBar", "HorizontalStackedBar"},
              d \in StackedData, l \in {"false", "true", "fuzzy"} } :
      /\ Len(c.data[1]) = Len(c.data[2])
      /\ \E k \in 1..Len(c.data[1]) :
           isNumber(c.data[1][k]) \/ isNumber(c.data[2][k]) }
  \cup
  { [tpgraph |-> t, data |-> d, logarithmic |-> "false"] :
      t \in {"Radar", "PolarArea"}, d \in SingleData }

\* valueBounds = getValueBounds() of the renderer of the chart
ValueBoundsOf(chart) ==
  CASE chart.tpgraph \in {"Bar", "Line"} -> getValueBounds(chart.data)
    [] chart.tpgraph = "HorizontalBar" ->
         HorizontalBar_getValueBounds(chart.data)
    [] chart.tpgraph = "StackedBar" -> StackedBar_getValueBounds(chart.data)
    [] chart.tpgraph = "HorizontalStackedBar" ->
         HorizontalStackedBar_getValueBounds(chart.data)
    [] chart.tpgraph = "Radar" -> Radar_getValueBounds(chart.data)
    [] chart.tpgraph = "PolarArea" -> PolarArea_getValueBounds(chart.data[1])

\* config.logarithmic as calculateScale finds it: settled by Bar and by
\* Line, set to false by the stacked renderers, and left as the caller gave
\* it by HorizontalBar, where any value but false is truthy.
LogarithmicOf(chart, bounds) ==
  CASE chart.tpgraph \in {"Bar", "Line"} -> Logarithmic(chart, bounds)
    [] chart.tpgraph = "HorizontalBar" -> chart.logarithmic # "false"
    [] chart.tpgraph \in {"StackedBar", "HorizontalStackedBar"} -> FALSE
    [] chart.tpgraph \in {"Radar", "PolarArea"} -> FALSE

\* The scale section of an axis renderer: getValueBounds, the logarithmic
\* checks, calculateScale.
ScaleSection ==
  /\ calculatedScale = [tpgraph |-> "none"]
  /\ UNCHANGED scaleChart
  /\ valueBounds' = ValueBoundsOf(scaleChart)
  /\ calculatedScale' =
       LET bounds == ValueBoundsOf(scaleChart)
           config == [logarithmic |-> LogarithmicOf(scaleChart, bounds)]
       IN [calculateScale(config, bounds.maxDailySteps, bounds.minSteps,
                          bounds.maxValue, bounds.minValue)
             EXCEPT !.maxValue = bounds.maxValue] @@ config
  /\ UNCHANGED << animVars, hitVars, auxVars >>

\* A page about to draw one axis chart.
InitScale ==
  /\ AnimInit
  /\ inView = [c \in CanvasIds |-> TRUE]
  /\ devicePixelRatio = 0
  /\ HitIdle
  /\ AuxIdle
  /\ scaleChart \in ScaleCharts
  /\ valueBounds = [tpgraph |-> "none"]
  /\ calculatedScale = [tpgraph |-> "none"]

NextScale == ScaleSection

SpecScale == InitScale /\ [][NextScale]_vars

\* ------------------------------------------------------------------------
\* Final frame geometry and the pointer hit test
\*
\* Angles are counted in units of 1/18 degree, so that the segment angles
\* of the charts below and the compass directions of the pointer are whole
\* numbers; lengths are pixels and distances are compared squared.
\* ------------------------------------------------------------------------
TwoPi == 6480

\* The 0.001 rad taken off a segment that would span the full circle.
AndroidNudge == 1

\* a * (Math.PI / 180)
Degrees(a) == a * (TwoPi \div 360)

\* a * (Math.PI / 360)
HalfDegrees(a) == a * (TwoPi \div 720)

\* while (a < 0) a += 360; while (a > 360) a -= 360;
RECURSIVE NormalizeStartAngle(_)
NormalizeStartAngle(a) ==
  IF a < 0 THEN NormalizeStartAngle(a + 360)
  ELSE IF a > 360 THEN NormalizeStartAngle(a - 360)
  ELSE a

\* while (a < 0) a += 2*Math.PI; while (a > 2*Math.PI) a -= 2*Math.PI;
RECURSIVE NormalizeAngle(_)
NormalizeAngle(a) ==
  IF a < 0 THEN NormalizeAngle(a + TwoPi)
  ELSE IF a > TwoPi THEN NormalizeAngle(a - TwoPi)
  ELSE a

\* What calculateDrawingSize leaves in midPieX, midPieY and the radius for
\* a 100 x 100 drawing area.
PieLayout == [midPieX |-> 50, midPieY |-> 50, radius |-> 40]

\* What setMeasures and the tick sizes leave the axis renderers with.
AxisLayout ==
  [availableHeight |-> 70, availableWidth |-> 120,
   yAxisPosX |-> 20, topNotUsableSize |-> 5, scaleTickSizeTop |-> 5]

\* The bar options of the Bar defaults.
BarOptions ==
  [scaleGridLineWidth |-> 1, barStrokeWidth |-> 2, barValueSpacing |-> 5,
   barDatasetSpacing |-> 1]

\* The segment angle without the step back from the full circle.
SegmentAngle_uncapped(value, segmentTotal) == (value * TwoPi) \div segmentTotal

\* The angle of one segment on the final frame:
\* (value / segmentTotal) * (Math.PI * 2), and 2 * PI - 0.001 in place of a
\* full circle.
SegmentAngle(value, segmentTotal) ==
  IF (value * TwoPi) \div segmentTotal >= TwoPi THEN TwoPi - AndroidNudge
  ELSE (value * TwoPi) \div segmentTotal

\* cumvalue that takes the value of the segment alone.
CumValue_own(data, i) == Val(data[i])

\* cumvalue += 1 * data[i].value, over the defined values up to segment i
CumValue(data, i) == SumDefined(SubSeq(data, 1, i))

\* The segments of drawPieSegments on the final frame: for each defined
\* value the arc that is filled and the entry that is recorded.
RECURSIVE PieSegments(_, _, _, _, _, _)
PieSegments(data, i, cumulativeAngle, segmentTotal, innerRadius, radius) ==
  IF i > Len(data) THEN << >>
  ELSE IF ~isNumber(data[i])
       THEN PieSegments(data, i + 1, cumulativeAngle, segmentTotal,
                        innerRadius, radius)
       ELSE LET segmentAngle == SegmentAngle(Val(data[i]), segmentTotal)
                after == cumulativeAngle + segmentAngle
            IN << [path |-> [kind |-> "ARC",
                             x |-> PieLayout.midPieX, y |-> PieLayout.midPieY,
                             inner |-> innerRadius, outer |-> radius,
                             from |-> cumulativeAngle,
                             sweep |-> segmentAngle],
                   entry |-> [kind |-> "ARC",
                              x |-> PieLayout.midPieX,
                              y |-> PieLayout.midPieY,
                              rmin |-> innerRadius, rmax |-> radius,
                              start |-> after - segmentAngle,
                              stop |-> after,
                              i |-> 0, j |-> i - 1,
                              value |-> Val(data[i]),
                              cumvalue |-> CumValue(data, i),
                              totvalue |-> SumDefined(data)]] >>
               \o PieSegments(data, i + 1, after, segmentTotal,
                              innerRadius, radius)

\* Pie and Doughnut up to the final frame.
drawPieSegments(chart) ==
  PieSegments(chart.data, 1,
              NormalizeAngle(TwoPi - Degrees(chart.startAngle)),
              SumDefined(chart.data),
              IF chart.tpgraph = "Doughnut"
              THEN (PieLayout.radius * 50) \div 100 ELSE 0,
              PieLayout.radius)

\* Math.log(val) / Math.LN10 in thousandths, for an integer val > 0, to the
\* leading digit of val.
LeadingDigit(val) == val \div Pow10(Log10Floor(val))

MantissaMilli == << 0, 301, 477, 602, 699, 778, 845, 903, 954 >>

log10(val) == 1000 * Log10Floor(val) + MantissaMilli[LeadingDigit(val)]

\* calculateOffset without the CapValue of the linear scaling factor.
calculateOffset_uncapped(config, val, scale, scaleHop) ==
  IF ~config.logarithmic
  THEN LET outerValue == scale.steps * scale.stepValue[1]
           adjustedValue == (val - scale.graphMin) * scale.stepValue[2]
       IN { (scaleHop * scale.steps * adjustedValue) \div outerValue }
  ELSE IF val < 0 THEN {}
  ELSE IF val = 0 THEN {0}
  ELSE { CapValue(log10(val) * scaleHop
                    - calculateOrderOfMagnitude(scale.graphMin) * 1000
                        * scaleHop,
                  {}, {0}) \div 1000 }

\* calculateOffset, in pixels.  The logarithm of a negative value is NaN
\* and stays NaN through CapValue; the logarithm of 0 is -Infinity and is
\* capped to 0.
calculateOffset(config, val, scale, scaleHop) ==
  IF ~config.logarithmic
  THEN LET outerValue == scale.steps * scale.stepValue[1]
           adjustedValue == (val - scale.graphMin) * scale.stepValue[2]
           scalingFactor == CapValue(adjustedValue, {outerValue}, {0})
       IN { (scaleHop * scale.steps * scalingFactor) \div outerValue }
  ELSE IF val < 0 THEN {}
  ELSE IF val = 0 THEN {0}
  ELSE { CapValue(log10(val) * scaleHop
                    - calculateOrderOfMagnitude(scale.graphMin) * 1000
                        * scaleHop,
                  {}, {0}) \div 1000 }

\* The scale and the axis positions an axis renderer draws with.
AxisFrame(chart, labels) ==
  LET bounds == getValueBounds(chart.data)
      scale == calculateScale([logarithmic |-> FALSE], bounds.maxDailySteps,
                              bounds.minSteps, bounds.maxValue,
                              bounds.minValue)
      scaleHop == AxisLayout.availableHeight \div scale.steps
  IN [scale |-> scale,
      scaleHop |-> scaleHop,
      valueHop |-> AxisLayout.availableWidth \div labels,
      xAxisPosY |-> AxisLayout.topNotUsableSize + scale.steps * scaleHop
                      + AxisLayout.scaleTickSizeTop,
      zeroY |-> IF NumLess(bounds.minValue, Num(0))
                THEN Val(calculateOffset([logarithmic |-> FALSE], 0, scale,
                                         scaleHop))
                ELSE 0]

\* The corners recorded for a bar without putting the larger y first.
BarCorners_unordered(t1, t2) == << t1, t2 >>

\* if (t1 < t2) { t3 = t1; t1 = t2; t2 = t3 }
BarCorners(t1, t2) == IF t1 < t2 THEN << t2, t1 >> ELSE << t1, t2 >>

\* drawBars of Bar on the final frame.
RECURSIVE BarSegments(_, _, _, _)
BarSegments(datasets, f, i, j) ==
  IF i > Len(datasets) THEN << >>
  ELSE IF j > Len(datasets[i]) THEN BarSegments(datasets, f, i + 1, 1)
  ELSE IF ~isNumber(datasets[i][j]) THEN BarSegments(datasets, f, i, j + 1)
  ELSE LET n == Len(datasets)
           barWidth ==
             (f.valueHop - BarOptions.scaleGridLineWidth * 2
                - BarOptions.barValueSpacing * 2
                - (BarOptions.barDatasetSpacing * n - 1)
                - ((BarOptions.barStrokeWidth \div 2) * n - 1)) \div n
           barOffset ==
             AxisLayout.yAxisPosX + BarOptions.barValueSpacing
               + f.valueHop * (j - 1) + barWidth * (i - 1)
               + BarOptions.barDatasetSpacing * (i - 1)
               + BarOptions.barStrokeWidth * (i - 1)
           t1 == f.xAxisPosY - f.zeroY
           t2 == f.xAxisPosY
                   - Val(calculateOffset([logarithmic |-> FALSE],
                                         Val(datasets[i][j]), f.scale,
                                         f.scaleHop))
                   + BarOptions.barStrokeWidth \div 2
           t == BarCorners(t1, t2)
       IN << [path |-> [kind |-> "RECT", xa |-> barOffset, ya |-> t1,
                        xb |-> barOffset + barWidth, yb |-> t2],
              entry |-> [kind |-> "RECT", x1 |-> barOffset, y1 |-> t[1],
                         x2 |-> barOffset + barWidth, y2 |-> t[2],
                         i |-> i - 1, j |-> j - 1]] >>
            \o BarSegments(datasets, f, i, j + 1)

\* drawLines of Line on the final frame: the point of each defined value.
RECURSIVE LinePoints(_, _, _, _)
LinePoints(datasets, f, i, j) ==
  IF i > Len(datasets) THEN << >>
  ELSE IF j > Len(datasets[i]) THEN LinePoints(datasets, f, i + 1, 1)
  ELSE IF ~isNumber(datasets[i][j]) THEN LinePoints(datasets, f, i, j + 1)
  ELSE LET xPos == AxisLayout.yAxisPosX + f.valueHop * (j - 1)
           yPos == f.xAxisPosY
                     - Val(calculateOffset([logarithmic |-> FALSE],
                                           Val(datasets[i][j]), f.scale,
                                           f.scaleHop))
       IN << [path |-> [kind |-> "POINT", x |-> xPos, y |-> yPos],
              entry |-> [kind |-> "POINT", x |-> xPos, y |-> yPos,
                         i |-> i - 1, j |-> j - 1]] >>
            \o LinePoints(datasets, f, i, j + 1)

\* What the final frame of a chart fills and records.
FinalFrame(chart) ==
  IF chart.tpgraph \in {"Pie", "Doughnut"} THEN drawPieSegments(chart)
  ELSE IF chart.tpgraph = "Bar"
       THEN BarSegments(chart.data,
                        AxisFrame(chart, Len(chart.data[1])), 1, 1)
       ELSE LinePoints(chart.data,
                       AxisFrame(chart, Len(chart.data[1]) - 1), 1, 1)

\* Math.acos((x - cx) / distance) for a pointer on one of the eight compass
\* directions from the centre.
ArcCos(dx, dy) ==
  IF dy = 0 THEN (IF dx > 0 THEN 0 ELSE TwoPi \div 2)
  ELSE IF dx = 0 THEN TwoPi \div 4
  ELSE IF dx > 0 THEN TwoPi \div 8 ELSE 3 * (TwoPi \div 8)

\* One window of the angle test alone.
AngleMatches_noTurn(angle, start, stop) == angle > start /\ angle < stop

\* The angle test of an ARC entry: the window and its two neighbours a
\* full turn away.
AngleMatches(angle, start, stop) ==
  \/ (angle > start /\ angle < stop)
  \/ (angle > start - TwoPi /\ angle < stop - TwoPi)
  \/ (angle > start + TwoPi /\ angle < stop + TwoPi)

\* The test doMouseMove applies to one entry.
EntryMatches(e, config, pos) ==
  LET dx == pos[1] - e.x
      dy == pos[2] - e.y
      distance2 == dx * dx + dy * dy
      signed == IF pos[2] < e.y THEN -ArcCos(dx, dy) ELSE ArcCos(dx, dy)
      turned == NormalizeAngle(signed)
      angle == IF turned < HalfDegrees(config.startAngle)
               THEN turned + TwoPi ELSE turned
  IN IF e.kind = "ARC"
     THEN /\ distance2 > e.rmin * e.rmin
          /\ distance2 < e.rmax * e.rmax
          /\ AngleMatches(angle, e.start, e.stop)
     ELSE IF e.kind = "RECT"
          THEN pos[1] > e.x1 /\ pos[1] < e.x2
               /\ pos[2] < e.y1 /\ pos[2] > e.y2
          ELSE IF e.kind = "POINT" THEN distance2 < 10 * 10
               ELSE FALSE

\* A tooltip that keeps the text of the first entry shown.
ShowEntry_keepFirst(div, k) ==
  [innerHTML |-> IF div.innerHTML = {} THEN {k} ELSE div.innerHTML,
   moved |-> Append(div.moved, k)]

\* The body of a matching branch: the text of entry k replaces the
\* tooltip's content and oCursor.moveIt places the tooltip.
ShowEntry(div, k) ==
  [innerHTML |-> {k}, moved |-> Append(div.moved, k)]

RECURSIVE MouseMoveLoop(_, _, _, _, _)
MouseMoveLoop(list, config, pos, k, div) ==
  IF k > Len(list) THEN div
  ELSE MouseMoveLoop(list, config, pos, k + 1,
                     IF EntryMatches(list[k], config, pos)
                     THEN ShowEntry(div, k) ELSE div)

\* A doMouseMove that walks the list over the tooltip as it was left.
doMouseMove_notCleared(list, config, pos) ==
  MouseMoveLoop(list, config, pos, 1, annotateDIV)

\* doMouseMove: clear the tooltip, then walk the whole list.
doMouseMove(list, config, pos) ==
  MouseMoveLoop(list, config, pos, 1, [innerHTML |-> {}, moved |-> << >>])

StartAngles == {-90, 0, 15, 90, 135, 180, 270, 360, 450}

HitCharts ==
  { [tpgraph |-> t, data |-> d, startAngle |-> a] :
      t \in {"Pie", "Doughnut"},
      d \in { << {1}, {3} >>, << {10}, {30} >>, << {2}, {}, {1} >>, << {5} >>,
              << {1}, {1}, {1}, {1}, {1}, {1}, {1}, {1} >> },
      a \in StartAngles }
  \cup
  { [tpgraph |-> "Bar", data |-> d, startAngle |-> 0] :
      d \in { << << {3}, {-2}, {}, {5} >> >>,
              << << {3}, {-2} >>, << {-1}, {4} >> >> } }
  \cup
  { [tpgraph |-> "Line", data |-> d, startAngle |-> 0] :
      d \in { << << {2}, {4} >>, << {2}, {1} >> >>,
              << << {0}, {3}, {} >>, << {1}, {}, {3} >> >> } }

Reach == {0, 10, 20, 30, 40, 50}

\* Pointer positions: around the centre of a radial chart on the eight
\* compass directions, on a 5-pixel grid over an axis chart.
CompassPositions ==
  { << PieLayout.midPieX + sx * m, PieLayout.midPieY + sy * m >> :
      sx \in {-1, 0, 1}, sy \in {-1, 0, 1}, m \in Reach }

GridPositions == { << 5 * gx, 5 * gy >> : gx \in 2..30, gy \in 0..18 }

PointerPositions(chart) ==
  IF chart.tpgraph \in {"Pie", "Doughnut"} THEN CompassPositions
  ELSE GridPositions

\* The renderer has normalised config.startAngle, emptied the list and
\* registered the listener; the final frame draws and records.
HitRender ==
  /\ drawn = << >>
  /\ drawn' = [k \in 1..Len(FinalFrame(hitChart)) |->
                 FinalFrame(hitChart)[k].path]
  /\ hitAnnotate' = [k \in 1..Len(FinalFrame(hitChart)) |->
                       FinalFrame(hitChart)[k].entry]
  /\ UNCHANGED << hitChart, pointer, annotateDIV, animVars, scaleVars,
               auxVars >>

\* The pointer moves over the canvas after the render has completed.
PointerMove(pos) ==
  /\ drawn # << >>
  /\ pos \in PointerPositions(hitChart)
  /\ pointer' = pos
  /\ annotateDIV' =
       doMouseMove(hitAnnotate,
                   [startAngle |-> NormalizeStartAngle(hitChart.startAngle)],
                   pos)
  /\ UNCHANGED << hitChart, hitAnnotate, drawn, animVars, scaleVars,
               auxVars >>

\* A page with one chart whose animation is about to draw its final frame.
InitHit ==
  /\ AnimInit
  /\ inView = [c \in CanvasIds |-> TRUE]
  /\ devicePixelRatio = 0
  /\ ScaleIdle
  /\ AuxIdle
  /\ hitChart \in HitCharts
  /\ hitAnnotate = << >>
  /\ drawn = << >>
  /\ pointer = << >>
  /\ annotateDIV = [innerHTML |-> {}, moved |-> << >>]

NextHit ==
  \/ HitRender
  \/ \E pos \in CompassPositions \cup GridPositions : PointerMove(pos)

SpecHit == InitHit /\ [][NextHit]_vars

\* ------------------------------------------------------------------------
\* Number formatting
\*
\* A number is an integer count of hundredths; a string is a sequence of
\* one-character strings; a separator is a string of at most one character.
\* ------------------------------------------------------------------------
DigitChars == << "0", "1", "2", "3", "4", "5", "6", "7", "8", "9" >>

IsDigit(c) == \E d \in 1..10 : DigitChars[d] = c

DigitValue(c) == (CHOOSE d \in 1..10 : DigitChars[d] = c) - 1

RECURSIVE Digits(_)
Digits(n) ==
  IF n < 10 THEN << DigitChars[n + 1] >>
  ELSE Digits(n \div 10) \o << DigitChars[(n % 10) + 1] >>

\* value.toString() of a number of at most two decimals
NumberToString(h) ==
  LET a == IF h < 0 THEN -h ELSE h
      frac == a % 100
  IN (IF h < 0 THEN << "-" >> ELSE << >>)
       \o Digits(a \div 100)
       \o (IF frac = 0 THEN << >>
           ELSE IF frac % 10 = 0 THEN << ".", DigitChars[(frac \div 10) + 1] >>
           ELSE << ".", DigitChars[(frac \div 10) + 1],
                   DigitChars[(frac % 10) + 1] >>)

\* str.indexOf(sep) counted from 1, 0 when absent, for a one-character sep
RECURSIVE IndexFrom(_, _, _)
IndexFrom(str, sep, p) ==
  IF p > Len(str) THEN 0
  ELSE IF << str[p] >> = sep THEN p
  ELSE IndexFrom(str, sep, p + 1)

IndexOf(str, sep) == IndexFrom(str, sep, 1)

\* str.replace(/\./g, sep)
RECURSIVE ReplaceDots(_, _)
ReplaceDots(str, sep) ==
  IF str = << >> THEN << >>
  ELSE (IF Head(str) = "." THEN sep ELSE << Head(str) >>)
         \o ReplaceDots(Tail(str), sep)

\* str.replace(/\B(?=(\d{3})+(?!\d))/g, sep) on a sign and digits: after a
\* digit that a multiple of three digits follows up to the end.
RECURSIVE GroupThousands(_, _, _)
GroupThousands(str, p, sep) ==
  IF p > Len(str) THEN << >>
  ELSE << str[p] >>
         \o (IF IsDigit(str[p]) /\ p < Len(str) /\ (Len(str) - p) % 3 = 0
             THEN sep ELSE << >>)
         \o GroupThousands(str, p + 1, sep)

\* Math.round(value / unit) * unit for the roundNumber of the config, {} for
\* "none": -roundNumber decimals when roundNumber <= 0, tens and up above it.
RoundNumber(h, roundNumber) ==
  IF roundNumber = {} THEN h
  ELSE IF Val(roundNumber) <= -2 THEN h
  ELSE LET unit == 10 ^ (2 + Val(roundNumber))
       IN ((2 * h + unit) \div (2 * unit)) * unit

\* fmtChartJS(config, value, "none") for a number
fmtChartJS(config, value) ==
  LET rounded == RoundNumber(value, config.roundNumber)
      replaced == ReplaceDots(NumberToString(rounded), config.decimalSeparator)
      posdec == IndexOf(replaced, config.decimalSeparator)
      part1 == IF posdec > 0 THEN SubSeq(replaced, 1, posdec - 1)
               ELSE replaced
      part2 == IF posdec > 0
               THEN SubSeq(replaced, posdec + 1, Len(replaced)) ELSE << >>
      grouped == GroupThousands(part1, 1, config.thousandSeparator)
  IN IF config.decimalSeparator # << "." >>
          \/ config.thousandSeparator # << >>
     THEN [type |-> "string",
           text |-> IF config.thousandSeparator # << >>
                    THEN grouped
                           \o (IF part2 # << >>
                               THEN config.decimalSeparator \o part2
                               ELSE << >>)
                    ELSE replaced]
     ELSE [type |-> "number", num |-> rounded]

\* while (v1.indexOf(sep) >= 0) v1 = v1.replace(sep, "")
RECURSIVE RemoveAll(_, _)
RemoveAll(str, sep) ==
  IF str = << >> THEN << >>
  ELSE (IF << Head(str) >> = sep THEN << >> ELSE << Head(str) >>)
         \o RemoveAll(Tail(str), sep)

\* v1.replace(sep, "."): the first occurrence only
ReplaceFirst(str, sep) ==
  IF IndexOf(str, sep) = 0 THEN str
  ELSE SubSeq(str, 1, IndexOf(str, sep) - 1) \o << "." >>
         \o SubSeq(str, IndexOf(str, sep) + 1, Len(str))

RECURSIVE DigitsValue(_, _)
DigitsValue(str, acc) ==
  IF str = << >> THEN acc
  ELSE DigitsValue(Tail(str), 10 * acc + DigitValue(Head(str)))

\* 1 * str for a string of at most two decimals: the number in hundredths,
\* or NaN when the string is not a decimal literal.
StringToNumber(str) ==
  LET negative == str # << >> /\ Head(str) = "-"
      body == IF negative THEN Tail(str) ELSE str
      dot == IndexOf(body, << "." >>)
      whole == IF dot > 0 THEN SubSeq(body, 1, dot - 1) ELSE body
      frac == IF dot > 0 THEN SubSeq(body, dot + 1, Len(body)) ELSE << >>
      literal == /\ \A k \in 1..Len(whole) : IsDigit(whole[k])
                 /\ \A k \in 1..Len(frac) : IsDigit(frac[k])
                 /\ Len(frac) <= 2
                 /\ (negative \/ dot > 0) => whole \o frac # << >>
      magnitude == 100 * DigitsValue(whole, 0)
                     + (IF Len(frac) = 1 THEN 10 * DigitsValue(frac, 0)
                        ELSE DigitsValue(frac, 0))
  IN IF ~literal THEN {}
     ELSE { IF negative THEN -magnitude ELSE magnitude }

\* unFormat that leaves the decimal separator in the string.
unFormat_decimalKept(config, num) ==
  IF (config.decimalSeparator # << "." >>
        \/ config.thousandSeparator # << >>) /\ num.type = "string"
  THEN StringToNumber(IF config.thousandSeparator # << >>
                      THEN RemoveAll(num.text, config.thousandSeparator)
                      ELSE num.text)
  ELSE {num.num}

\* unFormat: the number read back from a formatted value (NaN is {})
unFormat(config, num) ==
  IF (config.decimalSeparator # << "." >>
        \/ config.thousandSeparator # << >>) /\ num.type = "string"
  THEN LET v1 == IF config.thousandSeparator # << >>
                 THEN RemoveAll(num.text, config.thousandSeparator)
                 ELSE num.text
       IN StringToNumber(IF config.decimalSeparator # << "." >>
                         THEN ReplaceFirst(v1, config.decimalSeparator)
                         ELSE v1)
  ELSE {num.num}

FmtConfigs ==
  [decimalSeparator : { << "." >>, << "," >> },
   thousandSeparator : { << >>, << "," >>, << "." >>, << " " >> },
   roundNumber : { {}, {-1}, {0}, {1} }]

\* 0, 0.05, 1.5, 999.5, 1234.56, -1234.5, 1000000, 1234567
FmtValues == {0, 5, 150, 99950, 123456, -123450, 100000000, 123456700}

\* A label value is formatted for display ...
Format ==
  /\ fmtText = [type |-> "none"]
  /\ fmtText' = fmtChartJS(fmtConfig, fmtValue)
  /\ UNCHANGED << fmtConfig, fmtValue, fmtBack, animVars, scaleVars,
                  hitVars, cfgVars, angleVars, hbsVars >>

\* ... and read back by roundToWithThousands.
UnFormat ==
  /\ fmtText # [type |-> "none"]
  /\ fmtBack = [type |-> "none"]
  /\ fmtBack' = [type |-> "number", num |-> unFormat(fmtConfig, fmtText)]
  /\ UNCHANGED << fmtConfig, fmtValue, fmtText, animVars, scaleVars,
                  hitVars, cfgVars, angleVars, hbsVars >>

InitFormat ==
  /\ AnimInit
  /\ inView = [c \in CanvasIds |-> TRUE]
  /\ devicePixelRatio = 0
  /\ ScaleIdle
  /\ HitIdle
  /\ fmtConfig \in FmtConfigs
  /\ fmtValue \in FmtValues
  /\ fmtText = [type |-> "none"]
  /\ fmtBack = [type |-> "none"]
  /\ CfgIdle
  /\ AngleIdle
  /\ HbsIdle

NextFormat == Format \/ UnFormat

SpecFormat == InitFormat /\ [][NextFormat]_vars

\* ------------------------------------------------------------------------
\* The layers of a chart configuration
\*
\* Option objects live in a heap and are named by their index; every value
\* of a layer is the name of the layer, so that a merged value shows where
\* it came from.
\* ------------------------------------------------------------------------
OptionKeys == {"animationSteps", "barStrokeWidth"}

LayerNames ==
  << "commonOptions", "xyAxisCommonOptions", "Bar.defaults",
     "charJSPersonnalDefaultOptions", "charJSPersonnalDefaultOptionsBar",
     "options" >>

Layer(name, keys) == [k \in keys |-> name]

\* mergeChartConfig that fills the defaults object instead of a new one.
mergeChartConfigRef_inPlace(heap, defaults, userDefined) ==
  [heap |-> [heap EXCEPT ![defaults] =
               mergeChartConfig(heap[defaults], heap[userDefined])],
   ref |-> defaults]

\* mergeChartConfig on references: var returnObj = {} is a new object,
\* filled from defaults and then from userDefined.
mergeChartConfigRef(heap, defaults, userDefined) ==
  [heap |-> Append(heap, mergeChartConfig(heap[defaults], heap[userDefined])),
   ref |-> Len(heap) + 1]

\* chart.Bar up to the call of the renderer.
Chart_Bar ==
  /\ cfgConfig = 0
  /\ LET m1 == mergeChartConfigRef(cfgHeap, 1, 3)
         m2 == mergeChartConfigRef(m1.heap, 2, m1.ref)
         m3 == mergeChartConfigRef(m2.heap, m2.ref, 4)
         m4 == mergeChartConfigRef(m3.heap, m3.ref, 5)
         m5 == mergeChartConfigRef(m4.heap, m4.ref, cfgOptions)
     IN IF cfgOptions # 0
        THEN /\ cfgHeap' = m5.heap
             /\ cfgBarDefaults' = m4.ref
             /\ cfgConfig' = m5.ref
        ELSE /\ cfgHeap' = m4.heap
             /\ cfgBarDefaults' = m4.ref
             /\ cfgConfig' = m4.ref
  /\ UNCHANGED << cfgOptions, animVars, scaleVars, hitVars, fmtVars,
                  angleVars, hbsVars >>

\* A page that has set its personalizations and is about to call
\* chart.Bar, with options or without.
InitConfig ==
  /\ AnimInit
  /\ inView = [c \in CanvasIds |-> TRUE]
  /\ devicePixelRatio = 0
  /\ ScaleIdle
  /\ HitIdle
  /\ FmtIdle
  /\ AngleIdle
  /\ HbsIdle
  /\ \E keys \in [1..6 -> SUBSET OptionKeys] :
       cfgHeap = [n \in 1..6 |-> Layer(LayerNames[n], keys[n])]
  /\ cfgOptions \in {0, 6}
  /\ cfgBarDefaults = 3
  /\ cfgConfig = 0

NextConfig == Chart_Bar

SpecConfig == InitConfig /\ [][NextConfig]_vars

\* ------------------------------------------------------------------------
\* The start angle loops of the radial renderers
\*
\* A start angle is a pair << n, e >> standing for the double n + e * 2^100:
\* next to a non-zero e the 360 added or subtracted is lost to rounding.
\* ------------------------------------------------------------------------
AngleStep == 15

MaxTurns == 3

\* a < b for two doubles
AngleLess(a, b) == a[2] < b[2] \/ (a[2] = b[2] /\ a[1] < b[1])

\* a + k for a double a and an integer k of a few hundred
AnglePlus(a, k) == IF a[2] # 0 THEN a ELSE << a[1] + k, 0 >>

\* while (config.startAngle < 0) { config.startAngle += 360; }
RaiseStartAngle ==
  /\ anglePc = "raise"
  /\ AngleLess(startAngle, << 0, 0 >>)
  /\ startAngle' = AnglePlus(startAngle, 360)
  /\ UNCHANGED << anglePc, animVars, scaleVars, hitVars, fmtVars, cfgVars,
                  hbsVars >>

\* An if in place of the second while: one subtraction and on.
LowerStartAngle_once ==
  /\ anglePc \in {"raise", "lower"}
  /\ ~AngleLess(startAngle, << 0, 0 >>)
  /\ AngleLess(<< 360, 0 >>, startAngle)
  /\ startAngle' = AnglePlus(startAngle, -360)
  /\ anglePc' = "done"
  /\ UNCHANGED << animVars, scaleVars, hitVars, fmtVars, cfgVars, hbsVars >>

\* while (config.startAngle > 360) { config.startAngle -= 360; }
LowerStartAngle ==
  /\ anglePc \in {"raise", "lower"}
  /\ ~AngleLess(startAngle, << 0, 0 >>)
  /\ AngleLess(<< 360, 0 >>, startAngle)
  /\ startAngle' = AnglePlus(startAngle, -360)
  /\ anglePc' = "lower"
  /\ UNCHANGED << animVars, scaleVars, hitVars, fmtVars, cfgVars, hbsVars >>

\* Both conditions are false: the renderer goes on.
StartAngleSettled ==
  /\ anglePc \in {"raise", "lower"}
  /\ ~AngleLess(startAngle, << 0, 0 >>)
  /\ ~AngleLess(<< 360, 0 >>, startAngle)
  /\ anglePc' = "done"
  /\ UNCHANGED << startAngle, animVars, scaleVars, hitVars, fmtVars,
                  cfgVars, hbsVars >>

\* A radial renderer entered with a finite config.startAngle: a multiple of
\* AngleStep degrees within MaxTurns turns, or a double beyond 2^53.
InitAngle ==
  /\ AnimInit
  /\ inView = [c \in CanvasIds |-> TRUE]
  /\ devicePixelRatio = 0
  /\ ScaleIdle
  /\ HitIdle
  /\ FmtIdle
  /\ CfgIdle
  /\ HbsIdle
  /\ startAngle \in
       { << AngleStep * n, 0 >> :
           n \in -((360 * MaxTurns) \div AngleStep)..
                  ((360 * MaxTurns) \div AngleStep) }
       \cup { << 0, -1 >>, << 0, 1 >> }
  /\ anglePc = "raise"

NextAngle == RaiseStartAngle \/ LowerStartAngle \/ StartAngleSettled

\* The loops run to their end without yielding.
SpecAngle == InitAngle /\ [][NextAngle]_vars /\ WF_vars(NextAngle)

\* ------------------------------------------------------------------------
\* HBS: namespaces and page initialization
\*
\* Objects live in a heap and are named by their index, window being 1.  An
\* object has its namespace properties (name -> reference), and a section
\* controller has in addition an own init function or not, and a set of
\* page functions.  A string is a sequence of one-character strings; a
\* value that may be null is a record of type "null" or "string".
\* ------------------------------------------------------------------------
MaxNamespaceCalls == 2

MaxInitCalls == 1

NullValue == [type |-> "null"]

Str(chars) == [type |-> "string", chars |-> chars]

HAN == << "H", "A", "N" >>

main == << "m", "a", "i", "n" >>

\* pkg.split('.')
RECURSIVE Split(_, _)
Split(chars, part) ==
  IF chars = << >> THEN << part >>
  ELSE IF Head(chars) = "." THEN << part >> \o Split(Tail(chars), << >>)
  ELSE Split(Tail(chars), Append(part, Head(chars)))

\* getPackageArray: '' for anything but a string
getPackageArray(pkg) ==
  IF pkg.type # "string" THEN << >> ELSE Split(pkg.chars, << >>)

PlainObject == [init |-> FALSE, pages |-> {}, props |-> << >>]

\* target[nextPart], {} for undefined
Property(heap, target, nextPart) ==
  IF nextPart \in DOMAIN heap[target].props
  THEN {heap[target].props[nextPart]} ELSE {}

SetProperty(heap, target, nextPart, value) ==
  [heap EXCEPT ![target].props =
     [k \in (DOMAIN heap[target].props) \cup {nextPart} |->
        IF k = nextPart THEN value ELSE heap[target].props[k]]]

\* The loop of namespace.  The {} that the first statement of the body
\* creates for a missing last part is replaced by func at once and is not
\* allocated here.
RECURSIVE namespaceLoop(_, _, _, _, _)
namespaceLoop(heap, packageParts, i, target, func) ==
  IF i > Len(packageParts) THEN heap
  ELSE LET nextPart == packageParts[i]
       IN IF i = Len(packageParts)
          THEN SetProperty(heap, target, nextPart, func)
          ELSE IF Property(heap, target, nextPart) # {}
          THEN namespaceLoop(heap, packageParts, i + 1,
                             Val(Property(heap, target, nextPart)), func)
          ELSE namespaceLoop(
                 SetProperty(Append(heap, PlainObject), target, nextPart,
                             Len(heap) + 1),
                 packageParts, i + 1, Len(heap) + 1, func)

namespace(heap, pkg, func) ==
  namespaceLoop(heap, getPackageArray(pkg), 1, 1, func)

\* What getNamespacedObject returns: null, false or an object.
Null == [t |-> "null"]

False == [t |-> "false"]

Ref(id) == [t |-> "object", id |-> id]

RECURSIVE getNamespacedLoop(_, _, _, _, _)
getNamespacedLoop(heap, packageParts, i, target, retVal) ==
  IF i > Len(packageParts) THEN retVal
  ELSE IF Property(heap, target, packageParts[i]) = {} THEN False
  ELSE getNamespacedLoop(heap, packageParts, i + 1,
                         Val(Property(heap, target, packageParts[i])),
                         Ref(Val(Property(heap, target, packageParts[i]))))

getNamespacedObject(heap, pkg) ==
  getNamespacedLoop(heap, getPackageArray(pkg), 1, 1, Null)

\* getNamespacedObject(pkg) !== null
exists(heap, pkg) == getNamespacedObject(heap, pkg) # Null

\* A value is truthy unless it is null or the empty string.
Truthy(v) == v.type = "string" /\ v.chars # << >>

\* loadedSection.hasOwnProperty('init'), on an object or on false
HasOwnInit(heap, loaded) == loaded.t = "object" /\ heap[loaded.id].init

\* typeof(loadedSection[page]) === 'function': a page function of the
\* controller, or a function every value inherits, such as toString.
HasFunction(heap, loaded, page) ==
  \/ page.chars = << "t", "o", "S", "t", "r", "i", "n", "g" >>
  \/ loaded.t = "object" /\ page.chars \in heap[loaded.id].pages

\* An initPage that starts the load again when the script has loaded.
initPage_reloads(heap, body, async, afterAsyncLoad) ==
  LET autoLoadScript == body.autoload \/ async
      loadedSection == getNamespacedObject(heap, body.section)
  IN IF autoLoadScript /\ Truthy(body.asyncScript)
     THEN [logged |-> << [msg |-> "Beginning asynchronous load of ",
                          arg |-> body.asyncScript] >>,
           called |-> << >>,
           appended |-> << body.asyncScript >>]
     ELSE IF Truthy(body.section) /\ loadedSection # Null
     THEN [logged |-> << >>,
           called |-> (IF HasOwnInit(heap, loadedSection)
                       THEN << [fn |-> "init", on |-> loadedSection] >>
                       ELSE << >>)
                      \o (IF Truthy(body.page)
                               /\ HasFunction(heap, loadedSection, body.page)
                          THEN << [fn |-> "page", on |-> loadedSection] >>
                          ELSE << >>),
           appended |-> << >>]
     ELSE [logged |-> << [msg |-> "Unable to load module ",
                          arg |-> body.section] >>,
           called |-> << >>,
           appended |-> << >>]

\* initPage: what it logs, what it calls and the script it appends.  The
\* third operand of the first condition, typeof(loadedSection !==
\* 'function'), is the non-empty string "boolean".
initPage(heap, body, async, afterAsyncLoad) ==
  LET autoLoadScript == body.autoload \/ async
      loadedSection == getNamespacedObject(heap, body.section)
  IN IF autoLoadScript /\ Truthy(body.asyncScript) /\ ~afterAsyncLoad
     THEN [logged |-> << [msg |-> "Beginning asynchronous load of ",
                          arg |-> body.asyncScript] >>,
           called |-> << >>,
           appended |-> << body.asyncScript >>]
     ELSE IF Truthy(body.section) /\ loadedSection # Null
     THEN [logged |-> << >>,
           called |-> (IF HasOwnInit(heap, loadedSection)
                       THEN << [fn |-> "init", on |-> loadedSection] >>
                       ELSE << >>)
                      \o (IF Truthy(body.page)
                               /\ HasFunction(heap, loadedSection, body.page)
                          THEN << [fn |-> "page", on |-> loadedSection] >>
                          ELSE << >>),
           appended |-> << >>]
     ELSE [logged |-> << [msg |-> "Unable to load module ",
                          arg |-> body.section] >>,
           called |-> << >>,
           appended |-> << >>]

Packages == { NullValue, Str(<< >>), Str(HAN), Str(main),
              Str(HAN \o << "." >> \o main) }

\* A script of the page calls HBS.namespace with one of its controllers.
Namespace(pkg, func) ==
  /\ hbsHeap # << >>
  /\ hbsCount[1] < MaxNamespaceCalls
  /\ hbsHeap' = namespace(hbsHeap, pkg, func)
  /\ hbsLast' = [op |-> "namespace", pkg |-> pkg, func |-> func]
  /\ hbsCount' = << hbsCount[1] + 1, hbsCount[2] >>
  /\ UNCHANGED << hbsBody, hbsLog, hbsCalls, hbsScripts, animVars,
                  scaleVars, hitVars, fmtVars, cfgVars, angleVars >>

\* The page calls HBS.initPage(async).
InitPage(async) ==
  /\ hbsHeap # << >>
  /\ hbsCount[2] < MaxInitCalls
  /\ LET run == initPage(hbsHeap, hbsBody, async, FALSE)
     IN /\ hbsLog' = hbsLog \o run.logged
        /\ hbsCalls' = hbsCalls \o run.called
        /\ hbsScripts' = hbsScripts \o run.appended
        /\ hbsLast' = [op |-> "initPage", afterAsyncLoad |-> FALSE] @@ run
  /\ hbsCount' = << hbsCount[1], hbsCount[2] + 1 >>
  /\ UNCHANGED << hbsHeap, hbsBody, animVars, scaleVars, hitVars, fmtVars,
                  cfgVars, angleVars >>

\* s.onload: the appended script has run, initPage(false, true) follows.
ScriptLoaded ==
  /\ hbsScripts # << >>
  /\ LET run == initPage(hbsHeap, hbsBody, FALSE, TRUE)
     IN /\ hbsLog' = hbsLog \o run.logged
        /\ hbsCalls' = hbsCalls \o run.called
        /\ hbsScripts' = Tail(hbsScripts) \o run.appended
        /\ hbsLast' = [op |-> "initPage", afterAsyncLoad |-> TRUE] @@ run
  /\ UNCHANGED << hbsHeap, hbsBody, hbsCount, animVars, scaleVars, hitVars,
                  fmtVars, cfgVars, angleVars >>

\* s.onerror
ScriptFailed ==
  /\ hbsScripts # << >>
  /\ hbsLog' = Append(hbsLog, [msg |-> "Unable to load ",
                               arg |-> Head(hbsScripts)])
  /\ hbsScripts' = Tail(hbsScripts)
  /\ hbsLast' = [op |-> "onerror"]
  /\ UNCHANGED << hbsHeap, hbsBody, hbsCalls, hbsCount, animVars, scaleVars,
                  hitVars, fmtVars, cfgVars, angleVars >>

\* A page with its body attributes set, window without namespaces, and two
\* section controllers that no script has namespaced yet: one with init and
\* the page function home, one with neither.
InitPageSpec ==
  /\ AnimInit
  /\ inView = [c \in CanvasIds |-> TRUE]
  /\ devicePixelRatio = 0
  /\ ScaleIdle
  /\ HitIdle
  /\ FmtIdle
  /\ CfgIdle
  /\ AngleIdle
  /\ hbsHeap = << PlainObject,
                  [init |-> TRUE, pages |-> { << "h", "o", "m", "e" >> },
                   props |-> << >>],
                  PlainObject >>
  /\ hbsBody \in
       [section : { NullValue, Str(<< >>), Str(HAN),
                    Str(HAN \o << "." >> \o main) },
        page : { NullValue, Str(<< "h", "o", "m", "e" >>),
                 Str(<< "t", "o", "S", "t", "r", "i", "n", "g" >>) },
        asyncScript : { NullValue, Str(<< "x", ".", "j", "s" >>) },
        autoload : BOOLEAN]
  /\ hbsLog = << >>
  /\ hbsCalls = << >>
  /\ hbsScripts = << >>
  /\ hbsLast = [op |-> "none"]
  /\ hbsCount = << 0, 0 >>

NextPage ==
  \/ \E pkg \in Packages, func \in {2, 3} : Namespace(pkg, func)
  \/ \E async \in BOOLEAN : InitPage(async)
  \/ ScriptLoaded
  \/ ScriptFailed

SpecPage == InitPageSpec /\ [][NextPage]_vars

\* ------------------------------------------------------------------------
\* The halve-or-double loop of calculateScale, one iteration at a time
\*
\* calculateScale is called with a linear scale, a value range and a step
\* window of numbers.  scaleChart holds the arguments, valueBounds the
\* same as the record getValueBounds would hand over, and calculatedScale
\* the locals of calculateScale: pc is "loop" while the while statement is
\* being executed and "done" once its condition was found false.
\* ------------------------------------------------------------------------
MaxWindow == 4

WindowValues == {-5, 0, 2, 5, 30, 300}

WindowCalls ==
  { [tpgraph |-> "calculateScale", maxValue |-> hi, minValue |-> lo,
     maxSteps |-> mx, minSteps |-> mn] :
      hi \in WindowValues, lo \in WindowValues,
      mx \in 1..MaxWindow, mn \in 1..MaxWindow }

\* The locals as the while statement finds them: what calculateScale
\* returns when the loop body never runs.
BeforeLoop(call) ==
  calculateScale([logarithmic |-> FALSE], {}, {},
                 Num(call.maxValue), Num(call.minValue))

\* A step value num / den in lowest terms: a double holds the value, not
\* the way it was reached.
RECURSIVE LowestTerms(_)
LowestTerms(stepValue) ==
  IF stepValue[1] % 2 = 0 /\ stepValue[2] % 2 = 0
  THEN LowestTerms(<< stepValue[1] \div 2, stepValue[2] \div 2 >>)
  ELSE stepValue

OutsideWindow ==
  \/ calculatedScale.steps < Val(valueBounds.minSteps)
  \/ calculatedScale.steps > Val(valueBounds.maxDailySteps)

\* One pass through the body of the while statement.
ScaleLoopBody ==
  /\ calculatedScale.pc = "loop"
  /\ OutsideWindow
  /\ LET loop == ScaleLoop(calculatedScale.graphMax
                             - calculatedScale.graphMin,
                           calculatedScale.stepValue, calculatedScale.steps,
                           valueBounds.minSteps, valueBounds.maxDailySteps, 1)
     IN calculatedScale' =
          [calculatedScale EXCEPT !.stepValue = LowestTerms(loop[1]),
                                  !.steps = loop[2]]
  /\ UNCHANGED << scaleChart, valueBounds, animVars, hitVars, auxVars >>

\* The condition of the while statement is false: the labels follow.
ScaleLoopExit ==
  /\ calculatedScale.pc = "loop"
  /\ ~OutsideWindow
  /\ calculatedScale' = [calculatedScale EXCEPT !.pc = "done"]
  /\ UNCHANGED << scaleChart, valueBounds, animVars, hitVars, auxVars >>

InitWindow ==
  /\ AnimInit
  /\ inView = [c \in CanvasIds |-> TRUE]
  /\ devicePixelRatio = 0
  /\ HitIdle
  /\ AuxIdle
  /\ scaleChart \in { call \in WindowCalls :
                         /\ call.minValue < call.maxValue
                         /\ call.minSteps <= call.maxSteps }
  /\ valueBounds = [maxValue |-> Num(scaleChart.maxValue),
                    minValue |-> Num(scaleChart.minValue),
                    maxDailySteps |-> {scaleChart.maxSteps},
                    minSteps |-> {scaleChart.minSteps}]
  /\ calculatedScale =
       [pc |-> "loop"] @@ BeforeLoop(scaleChart)

NextWindow == ScaleLoopBody \/ ScaleLoopExit

SpecWindow == InitWindow /\ [][NextWindow]_vars /\ WF_vars(NextWindow)

\* ------------------------------------------------------------------------
\* One animation run over the configurations of animationLoop
\*
\* A renderer hands animationLoop a config whose animationSteps may be any
\* integer, zero and negative ones included, with animation on or off and
\* clearRect on or off; the platform then runs the frames it asked for.
\* ------------------------------------------------------------------------
MaxAnimationSteps == 3

LoopConfigs ==
  { mergeChartConfig(ChartDefaults("Pie"), o) :
      o \in [animation : BOOLEAN,
             animationSteps : (-1)..MaxAnimationSteps,
             animationEasing : {"linear", "easeInBack", "easeOutBack"},
             clearRect : BOOLEAN] }

\* A renderer reaches its call of animationLoop.
AnimationLoop(chart, config) ==
  /\ runs = << >>
  /\ Becomes(animationLoop(World, "cv1", chart.tpgraph, chart.data, config))
  /\ lastCall' = [op |-> "animationLoop", chart |-> chart,
                  config |-> config]
  /\ UNCHANGED << scaleVars, hitVars, auxVars >>

InitLoop ==
  /\ AnimInit
  /\ inView = [c \in CanvasIds |-> TRUE]
  /\ devicePixelRatio = 0
  /\ ScaleIdle
  /\ HitIdle
  /\ AuxIdle

NextLoop ==
  \/ \E chart \in Charts, config \in LoopConfigs :
       AnimationLoop(chart, config)
  \/ FrameCallback

SpecLoop == InitLoop /\ [][NextLoop]_vars

\* ------------------------------------------------------------------------
\* Pointer events on annotated canvases
\*
\* The page renders charts with and without annotateDisplay, the frames
\* run, and the user moves the pointer over a canvas: every listener that
\* defMouse registered for the event runs, in registration order, and calls
\* doMouseMove(ctx, config, event) with the config of its closure;
\* doMouseMove reads jsGraphAnnotate[ctx.canvas.id] when it is called.
\* ------------------------------------------------------------------------
AnnotateOptions ==
  { [animationSteps |-> 2, animationEasing |-> "easeOutBack",
     annotateDisplay |-> TRUE, onAnimationComplete |-> "function"],
    [animation |-> FALSE, annotateDisplay |-> TRUE],
    [animation |-> FALSE] }

\* The doMouseMove calls one pointer event on the canvas leads to.
PointerCalls(canvas) ==
  LET annotate == SelectSeq(listeners[canvas],
                            LAMBDA l : l.kind = "annotate")
  IN [k \in 1..Len(annotate) |->
        [config |-> annotate[k].config, list |-> jsGraphAnnotate[canvas]]]

\* The pointer moves over a canvas that has a pointer listener.
PointerEvent(canvas) ==
  /\ PointerCalls(canvas) # << >>
  /\ lastCall' = [op |-> "pointer", canvas |-> canvas,
                  calls |-> PointerCalls(canvas)]
  /\ UNCHANGED << runs, rafQueue, jsGraphAnnotate, dynamicDisplay,
                  dynamicDisplayList, onscroll, inView, listeners,
                  canvasImage, canvasWidth, devicePixelRatio, totvalue,
                  saves, nCharts, scaleVars, hitVars, auxVars >>

InitPointer ==
  /\ AnimInit
  /\ inView = [c \in CanvasIds |-> TRUE]
  /\ devicePixelRatio = 0
  /\ ScaleIdle
  /\ HitIdle
  /\ AuxIdle

NextPointer ==
  \/ \E c \in CanvasIds, chart \in Charts, o \in AnnotateOptions :
       RenderCall(c, chart, o)
  \/ FrameCallback
  \/ \E c \in CanvasIds : PointerEvent(c)

SpecPointer == InitPointer /\ [][NextPointer]_vars

\* ------------------------------------------------------------------------
\* Vocabulary of the properties
\* ------------------------------------------------------------------------
Last(seq) == seq[Len(seq)]

RunsOn(c) == { r \in 1..Len(runs) : runs[r].canvas = c }

Latest(c) == CHOOSE r \in RunsOn(c) : \A q \in RunsOn(c) : q <= r

\* The run has drawn the frame at which its completion fraction reached 1.
Finished(r) ==
  /\ runs[r].frames # << >>
  /\ Last(runs[r].frames) >= Den(runs[r].config)

Pending(r) == \E k \in 1..Len(rafQueue) : rafQueue[k] = r

\* Positions <<dataset, index>> of the defined data points of a run.
DefinedPoints(run) ==
  IF run.tpgraph = "Pie"
  THEN { << 0, j - 1 >> : j \in DefinedIdx(run.data) }
  ELSE { << i - 1, j - 1 >> : i \in 1..Len(run.data),
                             j \in 1..Len(run.data[1]) } \cap 
       UNION { { << i - 1, j - 1 >> : j \in DefinedIdx(run.data[i]) } :
                 i \in 1..Len(run.data) }

\* One entry per defined data point of run r, all written by run r.
HoldsExactly(list, r) ==
  /\ Len(list) = Cardinality(DefinedPoints(runs[r]))
  /\ \A k \in 1..Len(list) : list[k].kind # "undefined" /\ list[k].run = r
  /\ { << list[k].i, list[k].j >> : k \in 1..Len(list) }
       = DefinedPoints(runs[r])

C2_CallbackExactlyOnce ==
  \A r \in 1..Len(runs) :
    /\ Len(runs[r].callbacks) <= 1
    /\ Finished(r) =>
         Len(runs[r].callbacks) =
           (IF runs[r].config.onAnimationComplete = "function" THEN 1 ELSE 0)
    /\ runs[r].callbacks # << >> =>
         /\ Finished(r)
         /\ runs[r].callbacks[1].frames = Len(runs[r].frames)
         /\ Last(runs[r].fractions) = One
    /\ ~Finished(r) => Pending(r) /\ runs[r].callbacks = << >>
    /\ Finished(r) => ~Pending(r)

\* A run superseded by a later render on its canvas has drawn its last frame
\* after that render started, and its callback has run.
C2_Witness ==
  \E r \in 1..Len(runs) :
    /\ Latest(runs[r].canvas) > r
    /\ canvasImage[runs[r].canvas] = << r, One >>
    /\ Len(runs[r].callbacks) = 1

\* C3: within a run percentAnimComplete strictly increases from frame to
\* frame, and no frame is drawn after the one at which it reached 1.
C3_FramesIncrease ==
  \A r \in 1..Len(runs) :
    \A k \in 1..Len(runs[r].frames) :
      /\ k > 1 => runs[r].frames[k - 1] < runs[r].frames[k]
      /\ k < Len(runs[r].frames) => runs[r].frames[k] < Den(runs[r].config)

C3_Witness ==
  \E r \in 1..Len(runs) : Finished(r) /\ Len(runs[r].frames) = 3

\* What run r writes when nothing else touches its canvas.
AloneEntries(r) ==
  IF runs[r].tpgraph = "Pie"
  THEN PieEntries(runs[r].data, r, 1, 0, SumDefined(runs[r].data))
  ELSE BarEntries(runs[r].data, r, 1, 1)

\* C4: runs on canvases with different ids are independent.  A canvas with a
\* single run ends with the annotation list and the number of callback calls
\* of that run executed alone, whatever ran on the other canvas, and a frame
\* of a run changes neither the annotation list nor the dynamic-display
\* record of another canvas.
C4_CanvasesIndependent ==
  /\ [](\A c \in CanvasIds : \A r \in RunsOn(c) :
         (RunsOn(c) = {r} /\ Finished(r)) =>
           /\ jsGraphAnnotate[c] = AloneEntries(r)
           /\ Len(runs[r].callbacks) =
                (IF runs[r].config.onAnimationComplete = "function"
                 THEN 1 ELSE 0))
  /\ [][lastCall'.op = "frame" =>
         \A c \in CanvasIds \ {runs[lastCall'.run].canvas} :
           /\ jsGraphAnnotate'[c] = jsGraphAnnotate[c]
           /\ dynamicDisplay'[c] = dynamicDisplay[c]]_vars

\* Two canvases each carry one finished run, and the frames of the two runs
\* were interleaved: the run started first finished last.
C4_Witness ==
  /\ Len(runs) = 2
  /\ runs[1].canvas # runs[2].canvas
  /\ Finished(1) /\ Finished(2)
  /\ Len(runs[1].frames) = 3 /\ Len(runs[2].frames) = 2
  /\ lastCall = [op |-> "frame", run |-> 1]
  /\ jsGraphAnnotate[runs[2].canvas] # << >>

DynOn(options) ==
  "dynamicDisplay" \in DOMAIN options /\ options.dynamicDisplay

\* C5: with dynamicDisplay enabled a render call on a canvas not recorded as
\* scrolled into view draws nothing, starts no animation and leaves the
\* annotation list alone; the record keeps the inputs of the first call; a
\* scroll event that does not find the canvas in view leaves it unrendered,
\* and the first one that does renders it with the saved data, config and
\* chart type.
C5_DeferredFirstRender ==
  [][/\ (lastCall'.op = "render" /\ DynOn(lastCall'.options)) =>
          LET c == lastCall'.canvas
          IN /\ dynamicDisplay[c] = << >> =>
                  /\ Slot(dynamicDisplay'[c], 3) = lastCall'.chart.data
                  /\ Slot(dynamicDisplay'[c], 6) = lastCall'.chart.tpgraph
                  /\ Slot(dynamicDisplay'[c], 4) =
                       mergeChartConfig(ChartDefaults(lastCall'.chart.tpgraph),
                                        lastCall'.options)
             /\ Slot(dynamicDisplay'[c], 1) = FALSE =>
                  /\ runs' = runs
                  /\ rafQueue' = rafQueue
                  /\ jsGraphAnnotate' = jsGraphAnnotate
                  /\ listeners' = listeners
                  /\ canvasImage'[c] \in {canvasImage[c], Blank}
     /\ \A c \in CanvasIds :
          dynamicDisplay[c] # << >> =>
            /\ Slot(dynamicDisplay'[c], 3) = Slot(dynamicDisplay[c], 3)
            /\ Slot(dynamicDisplay'[c], 4) = Slot(dynamicDisplay[c], 4)
            /\ Slot(dynamicDisplay'[c], 6) = Slot(dynamicDisplay[c], 6)
     /\ \A c \in CanvasIds :
          (lastCall'.op = "scroll" /\ dynamicDisplay[c] # << >>
             /\ Slot(dynamicDisplay[c], 2) = FALSE) =>
            IF inView'[c]
            THEN /\ Slot(dynamicDisplay'[c], 1) = TRUE
                 /\ Slot(dynamicDisplay'[c], 2) = TRUE
                 /\ \E r \in (Len(runs) + 1)..Len(runs') :
                      /\ runs'[r].canvas = c
                      /\ runs'[r].data = Slot(dynamicDisplay[c], 3)
                      /\ runs'[r].config = Slot(dynamicDisplay[c], 4)
                      /\ runs'[r].tpgraph = Slot(dynamicDisplay[c], 6)
                 /\ \A r \in 1..Len(runs) :
                      runs[r].canvas = c => ~runs[r].config.dynamicDisplay
            ELSE /\ dynamicDisplay'[c] = dynamicDisplay[c]
                 /\ \A r \in (Len(runs) + 1)..Len(runs') :
                      runs'[r].canvas # c
    ]_vars

\* A canvas whose first dynamic render call was held back has now been
\* rendered by a scroll event, with the saved inputs.
C5_Witness ==
  /\ lastCall.op = "scroll"
  /\ \E r \in 1..Len(runs) :
       /\ runs[r].config.dynamicDisplay
       /\ Slot(dynamicDisplay[runs[r].canvas], 2) = TRUE
       /\ nCharts = 2
       /\ Len(runs) = 1

\* C6: saveCanvas re-renders exactly once with animation, annotateDisplay,
\* dynamicDisplay and savePng off; the re-render draws one frame at fraction 1
\* before toDataURL reads the canvas, queues nothing, adds no listener, and
\* the pixels captured at entry are put back.
C6_SaveCanvasOneSyncFrame ==
  [][lastCall'.op = "save" =>
       LET c == lastCall'.canvas
           r == Len(runs')
       IN /\ Len(runs') = Len(runs) + 1
          /\ Len(saves') = Len(saves) + 1
          /\ runs'[r].canvas = c
          /\ ~runs'[r].config.animation
          /\ ~runs'[r].config.annotateDisplay
          /\ ~runs'[r].config.dynamicDisplay
          /\ ~runs'[r].config.savePng
          /\ runs'[r].fractions = << One >>
          /\ rafQueue' = rafQueue
          /\ Last(saves').href = << r, One >>
          /\ listeners' = listeners
          /\ Last(saves').cvSave = canvasImage[c]
          /\ canvasImage'[c] = canvasImage[c]
    ]_vars

\* saveCanvas ran on a canvas showing a frame of an animation and put that
\* frame back.
C6_Witness ==
  /\ lastCall.op = "save"
  /\ saves # << >>
  /\ canvasImage[lastCall.canvas] # Blank
  /\ Last(saves).cvSave = canvasImage[lastCall.canvas]

\* The canvas angle of the direction (dx, dy), clockwise from the positive
\* x axis as ctx.arc counts it, in [0, TwoPi).
Theta(dx, dy) ==
  IF dy = 0 THEN (IF dx > 0 THEN 0 ELSE 4 * (TwoPi \div 8))
  ELSE IF dy > 0
       THEN (IF dx > 0 THEN TwoPi \div 8
             ELSE IF dx = 0 THEN 2 * (TwoPi \div 8)
             ELSE 3 * (TwoPi \div 8))
       ELSE (IF dx < 0 THEN 5 * (TwoPi \div 8)
             ELSE IF dx = 0 THEN 6 * (TwoPi \div 8)
             ELSE 7 * (TwoPi \div 8))

Between(a, u, v) == (u < a /\ a < v) \/ (v < a /\ a < u)

\* The position lies strictly inside the shape: the filled sector or ring
\* sector, the filled bar, the 10-pixel disc around a line point.
Inside(path, pos) ==
  IF path.kind = "ARC"
  THEN LET dx == pos[1] - path.x
           dy == pos[2] - path.y
           d2 == dx * dx + dy * dy
       IN /\ d2 > path.inner * path.inner
          /\ d2 < path.outer * path.outer
          /\ (Theta(dx, dy) - path.from) % TwoPi > 0
          /\ (Theta(dx, dy) - path.from) % TwoPi < path.sweep
  ELSE IF path.kind = "RECT"
       THEN /\ Between(pos[1], path.xa, path.xb)
            /\ Between(pos[2], path.ya, path.yb)
       ELSE (pos[1] - path.x) * (pos[1] - path.x)
              + (pos[2] - path.y) * (pos[2] - path.y) < 100

Containing(pos) == { k \in 1..Len(drawn) : Inside(drawn[k], pos) }

Matched == { annotateDIV.moved[m] : m \in 1..Len(annotateDIV.moved) }

\* C7: after a completed render doMouseMove matches exactly the entries
\* whose shape strictly contains the pointer position: every ARC, RECT or
\* POINT entry that contains it and no entry that does not, for every start
\* angle of a radial chart.
C7_HitTestContainment ==
  pointer # << >> => Matched = Containing(pointer)

\* The pointer is in a segment of a chart started at 450 degrees whose
\* recorded angles lie a full turn above the pointer's own angle, and that
\* segment is the one matched.
C7_Witness ==
  /\ pointer # << >>
  /\ Matched # {}
  /\ Matched = Containing(pointer)
  /\ hitChart.startAngle = 450
  /\ \E k \in Matched :
       /\ hitAnnotate[k].kind = "ARC"
       /\ hitAnnotate[k].start > TwoPi

\* C8 as stated: when several recorded shapes contain the pointer the
\* tooltip shows the first matching entry in registry order, and a later
\* matching entry does not replace it.
C8_FirstMatchShown ==
  (pointer # << >> /\ Cardinality(Containing(pointer)) >= 2) =>
    \E k \in Containing(pointer) :
      /\ annotateDIV.innerHTML = {k}
      /\ \A m \in Containing(pointer) : k <= m

\* C8 as amended: the tooltip shows the last entry in registry order whose
\* shape contains the pointer, every later match replacing the content left
\* by an earlier one; with no such entry the tooltip stays empty.
C8_LastMatchShown ==
  pointer # << >> =>
    IF Containing(pointer) = {} THEN annotateDIV.innerHTML = {}
    ELSE \E k \in Containing(pointer) :
           /\ annotateDIV.innerHTML = {k}
           /\ \A m \in Containing(pointer) : m <= k

\* The pointer is within 10 pixels of the points of two datasets of a Line
\* chart and the tooltip shows the later of the two entries.
C8_Witness ==
  /\ pointer # << >>
  /\ hitChart.tpgraph = "Line"
  /\ Cardinality(Containing(pointer)) >= 2
  /\ Len(annotateDIV.moved) >= 2
  /\ annotateDIV.innerHTML = {annotateDIV.moved[Len(annotateDIV.moved)]}
  /\ annotateDIV.innerHTML # {annotateDIV.moved[1]}

Measured == calculatedScale # [tpgraph |-> "none"]

\* The number of decades from graphMin to graphMax, both powers of ten.
Decades(graphMin, graphMax) == Log10Floor(graphMax) - Log10Floor(graphMin)

\* C9: on a computed linear scale the step count of calculateScale lies in
\* the window [minSteps, maxSteps] that getValueBounds derived from the pixel
\* budget; on a logarithmic scale it is the number of orders of magnitude
\* between graphMin and graphMax.
C9_StepsWithinWindow ==
  Measured =>
    IF calculatedScale.logarithmic
    THEN calculatedScale.steps =
           Decades(calculatedScale.graphMin, calculatedScale.graphMax)
    ELSE /\ isNumber(valueBounds.minSteps)
         /\ isNumber(valueBounds.maxDailySteps)
         /\ calculatedScale.steps >= Val(valueBounds.minSteps)
         /\ calculatedScale.steps <= Val(valueBounds.maxDailySteps)

\* Every value of the chart is defined and they are all the same.
AllEqual(chart) ==
  \A k \in 1..Len(chart.data[1]) :
    isNumber(chart.data[1][k]) /\ chart.data[1][k] = chart.data[1][1]

\* C10: for a dataset whose values are all equal the value bounds become
\* [0, max(2 * max, 1)], and the step value of the scale is finite and
\* strictly positive.
C10_EqualValuesGetRange ==
  (Measured /\ AllEqual(scaleChart)) =>
    LET v == Val(scaleChart.data[1][1])
    IN /\ valueBounds.minValue = Num(0)
       /\ valueBounds.maxValue = Num(IF 2 * v > 1 THEN 2 * v ELSE 1)
       /\ calculatedScale.stepValue[1] > 0
       /\ calculatedScale.stepValue[2] > 0

\* The values a scale is asked to place: any of the data values on a linear
\* scale, the values that have a logarithm or -Infinity for one on a
\* logarithmic scale.
OffsetValues ==
  IF calculatedScale.logarithmic THEN { v \in ScaleValues : v >= 0 }
  ELSE ScaleValues

MeasuredHop == AxisLayout.availableHeight \div calculatedScale.steps

OffsetOf(v) == calculateOffset(calculatedScale, v, calculatedScale, MeasuredHop)

Stacked == scaleChart.tpgraph \in {"StackedBar", "HorizontalStackedBar"}

\* The categories of the chart with a defined value, and the sum of the
\* defined values of a category across the datasets.
Categories(chart) ==
  { j \in 1..Len(chart.data[1]) :
      \E k \in 1..Len(chart.data) : isNumber(At(chart.data, k, j)) }

RECURSIVE CategorySum(_, _, _)
CategorySum(datasets, k, j) ==
  IF k > Len(datasets) THEN 0
  ELSE (IF isNumber(At(datasets, k, j)) THEN Val(At(datasets, k, j)) ELSE 0)
         + CategorySum(datasets, k + 1, j)

LargestSum(chart) ==
  CHOOSE m \in { CategorySum(chart.data, 1, j) : j \in Categories(chart) } :
    \A j \in Categories(chart) : CategorySum(chart.data, 1, j) <= m

\* C12: for StackedBar and HorizontalStackedBar without a graphMax override
\* the upper bound that getValueBounds reports is the largest sum, over the
\* categories, of the defined values of the category across the datasets,
\* negative values included (or its replacement max(2 * max, 1) over the
\* lower bound 0, when all the sums are equal).
C12_StackedUpperBound ==
  (Measured /\ Stacked) =>
    \/ valueBounds.maxValue = Num(LargestSum(scaleChart))
    \/ /\ valueBounds.minValue = Num(0)
       /\ valueBounds.maxValue =
            Max(Num(2 * LargestSum(scaleChart)), Num(1))

Radial == hitChart.tpgraph \in {"Pie", "Doughnut"}

RECURSIVE SumOfAngles(_)
SumOfAngles(list) ==
  IF list = << >> THEN 0
  ELSE (Head(list).stop - Head(list).start) + SumOfAngles(Tail(list))

\* Every recorded segment starts where the one before it ends.
Contiguous(list) ==
  \A k \in 2..Len(list) : list[k].start = list[k - 1].stop

\* One segment carries the whole total of the chart.
WholeCircleSegment(chart) ==
  \E k \in 1..Len(chart.data) :
    isNumber(chart.data[k]) /\ Val(chart.data[k]) = SumDefined(chart.data)

\* C13 as stated: on the final frame the angles of the ARC entries of a Pie
\* or Doughnut sum to 2 * PI, a chart of a single segment included, and every
\* entry starts at the end angle of the entry before it.
C13_AnglesSumToFullCircle ==
  (Radial /\ hitAnnotate # << >>) =>
    /\ SumOfAngles(hitAnnotate) = TwoPi
    /\ Contiguous(hitAnnotate)

\* C13 amended: every entry starts at the end angle of the entry before it;
\* the angles sum to 2 * PI unless one segment carries the whole total, and
\* then to 2 * PI - 0.001.
C13_AnglesSumUpToNudge ==
  (Radial /\ hitAnnotate # << >>) =>
    /\ SumOfAngles(hitAnnotate) =
         IF WholeCircleSegment(hitChart) THEN TwoPi - 1 ELSE TwoPi
    /\ Contiguous(hitAnnotate)

\* A rendered chart of one segment, and so of less than the full circle.
C13_Witness ==
  /\ Radial
  /\ Len(hitAnnotate) = 1
  /\ WholeCircleSegment(hitChart)
  /\ hitAnnotate[1].stop - hitAnnotate[1].start = TwoPi - 1

Unformatted == fmtBack # [type |-> "none"]

\* C15 as stated: for every decimalSeparator and thousandSeparator, reading
\* the text of fmtChartJS back with unFormat gives the number that was
\* formatted, up to the rounding of roundNumber.
C15_RoundTripEveryConfig ==
  Unformatted =>
    fmtBack.num = {RoundNumber(fmtValue, fmtConfig.roundNumber)}

\* C15 amended: the same, for the configurations whose thousandSeparator is
\* empty or differs from the decimalSeparator.
C15_RoundTripDistinctSeparators ==
  (Unformatted
     /\ (fmtConfig.thousandSeparator = << >>
           \/ fmtConfig.thousandSeparator # fmtConfig.decimalSeparator)) =>
    fmtBack.num = {RoundNumber(fmtValue, fmtConfig.roundNumber)}

\* 1234.56 written as 1.234,56 and read back.
C15_Witness ==
  /\ Unformatted
  /\ fmtConfig.decimalSeparator = << "," >>
  /\ fmtConfig.thousandSeparator = << "." >>
  /\ fmtText.text = << "1", ".", "2", "3", "4", ",", "5", "6" >>
  /\ fmtBack.num = {123456}

\* The layers in falling precedence: the caller's options (when given), the
\* personalization of the chart type, the library-wide personalization, the
\* defaults of the chart type, the common defaults, and below them the
\* common defaults of the axis charts.
Precedence ==
  (IF cfgOptions # 0 THEN << 6 >> ELSE << >>) \o << 5, 4, 3, 1, 2 >>

\* The first layer of the precedence, from position p on, that defines k.
RECURSIVE Provider(_, _)
Provider(k, p) ==
  IF p > Len(Precedence) THEN 0
  ELSE IF k \in DOMAIN cfgHeap[Precedence[p]] THEN Precedence[p]
  ELSE Provider(k, p + 1)

ConfigFollowsPrecedence ==
  cfgConfig # 0 =>
    \A k \in OptionKeys :
      IF Provider(k, 1) = 0 THEN k \notin DOMAIN cfgHeap[cfgConfig]
      ELSE /\ k \in DOMAIN cfgHeap[cfgConfig]
           /\ cfgHeap[cfgConfig][k] = LayerNames[Provider(k, 1)]

LayersKept ==
  \A n \in 1..Len(cfgHeap) : cfgHeap'[n] = cfgHeap[n]

\* C16: the config of a chart takes each option from the caller's options,
\* else from the personalization of the chart type, else from the
\* library-wide personalization, else from the defaults of the chart type,
\* else from the common defaults; and merging changes no object that
\* existed before it, neither a lower layer nor the caller's options.
C16_ConfigPrecedence ==
  []ConfigFollowsPrecedence /\ [][LayersKept]_vars

\* A config merged from options that every layer defines and from an
\* option that only the common defaults and the personalization define.
C16_Witness ==
  /\ cfgConfig # 0
  /\ cfgOptions # 0
  /\ \A n \in 1..6 : "animationSteps" \in DOMAIN cfgHeap[n]
  /\ DOMAIN cfgHeap[6] = {"animationSteps"}
  /\ DOMAIN cfgHeap[5] = {"animationSteps"}
  /\ "barStrokeWidth" \in DOMAIN cfgHeap[4]
  /\ "barStrokeWidth" \in DOMAIN cfgHeap[1]
  /\ cfgHeap[cfgConfig]["animationSteps"] = "options"
  /\ cfgHeap[cfgConfig]["barStrokeWidth"] = "charJSPersonnalDefaultOptions"

AngleDone == anglePc = "done"

Span(bounds) ==
  (Log10Floor(bounds.maxValue[1]) + 1) - Log10Floor(bounds.minValue[1])

\* C18: the scale is logarithmic only for a Line or a Bar chart whose lower
\* bound is strictly positive, and under 'fuzzy' only when the bounds span
\* at least four orders of magnitude; for the stacked charts, HorizontalBar
\* and a lower bound that is not positive it is linear.
C18_LogarithmicOnlyLineOrBar ==
  (Measured /\ calculatedScale.logarithmic) =>
    /\ scaleChart.tpgraph \in {"Bar", "Line"}
    /\ scaleChart.logarithmic # "false"
    /\ NumLess(Num(0), valueBounds.minValue)
    /\ scaleChart.logarithmic = "fuzzy" => Span(valueBounds) >= 4

\* The object a dot path leads to from window, 0 when a part of it is not
\* defined or when the path is not a string.
RECURSIVE ResolveFrom(_, _, _, _)
ResolveFrom(heap, parts, i, target) ==
  IF i > Len(parts) THEN target
  ELSE IF parts[i] \notin DOMAIN heap[target].props THEN 0
  ELSE ResolveFrom(heap, parts, i + 1, heap[target].props[parts[i]])

Resolve(heap, pkg) ==
  IF pkg.type # "string" THEN 0
  ELSE ResolveFrom(heap, Split(pkg.chars, << >>), 1, 1)

\* C19: when initPage comes to look for the controller named by data-section
\* and it cannot be resolved, it logs "Unable to load module <section>" and
\* calls neither init() nor a page function.
C19_UnresolvedSectionLogged ==
  (hbsLast.op = "initPage" /\ hbsLast.appended = << >>
     /\ Resolve(hbsHeap, hbsBody.section) = 0) =>
    /\ hbsLast.logged = << [msg |-> "Unable to load module ",
                            arg |-> hbsBody.section] >>
    /\ hbsLast.called = << >>

\* C20: HBS.exists(pkg) is true exactly when the dot path resolves to a
\* defined object from window; getNamespacedObject(pkg) returns that object,
\* or null when there is none; and after HBS.namespace(pkg, obj)
\* getNamespacedObject(pkg) returns obj.
C20_ExistsIffResolves ==
  hbsHeap # << >> =>
    /\ \A pkg \in Packages :
         /\ exists(hbsHeap, pkg) <=> Resolve(hbsHeap, pkg) # 0
         /\ getNamespacedObject(hbsHeap, pkg) =
              IF Resolve(hbsHeap, pkg) # 0
              THEN Ref(Resolve(hbsHeap, pkg)) ELSE Null
    /\ (hbsLast.op = "namespace" /\ hbsLast.pkg.type = "string") =>
         getNamespacedObject(hbsHeap, hbsLast.pkg) = Ref(hbsLast.func)

\* Number of asynchronous loads started so far: autoLoadScript logs once
\* per script element it appends.
LoadsStarted ==
  Cardinality({ k \in 1..Len(hbsLog) :
                  hbsLog[k].msg = "Beginning asynchronous load of " })

\* C21: an initPage call that starts an asynchronous load calls neither
\* init nor the page function; the re-run made when the script has loaded
\* starts no load, so that no more loads are started than initPage calls
\* made by the page, and on the re-run no page function is called before
\* init.
C21_OneLoadPerInitPage ==
  /\ [](LoadsStarted <= hbsCount[2] /\ Len(hbsScripts) <= LoadsStarted)
  /\ [][hbsLast'.op = "initPage" =>
         /\ Len(hbsLast'.appended) <= 1
         /\ hbsLast'.appended # << >> =>
              /\ hbsLast'.called = << >>
              /\ hbsCalls' = hbsCalls
              /\ ~hbsLast'.afterAsyncLoad
         /\ hbsLast'.afterAsyncLoad =>
              /\ hbsLast'.appended = << >>
              /\ hbsScripts' = Tail(hbsScripts)
              /\ LoadsStarted' = LoadsStarted
              /\ \A i, j \in 1..Len(hbsLast'.called) :
                   (hbsLast'.called[i].fn = "page"
                      /\ hbsLast'.called[j].fn = "init") => j < i]_vars

\* The script has loaded and the re-run called init and then the page
\* function of the section controller.
C21_Witness ==
  /\ hbsLast.op = "initPage"
  /\ hbsLast.afterAsyncLoad
  /\ LoadsStarted = 1
  /\ Len(hbsLast.called) = 2
  /\ hbsLast.called[1].fn = "init"
  /\ hbsLast.called[2].fn = "page"

\* C22: the fraction handed to drawData is 1 on the final frame of a run
\* and at least 0 and strictly below 1 on every earlier frame, and the run
\* has appended one annotation entry per defined data point once it has
\* drawn its final frame and none before.
C22_FractionOneOnlyOnFinalFrame ==
  \A r \in 1..Len(runs) :
    /\ Len(runs[r].fractions) = Len(runs[r].frames)
    /\ \A k \in 1..Len(runs[r].fractions) :
         IF k = Len(runs[r].fractions) /\ Finished(r)
         THEN runs[r].fractions[k] = One
         ELSE runs[r].fractions[k] >= 0 /\ runs[r].fractions[k] < One
    /\ runs[r].annotateCnt =
         (IF Finished(r) THEN Cardinality(DefinedPoints(runs[r])) ELSE 0)

\* A finished run whose first eased value overshot 1 and was handed on as
\* 0.9999, and a finished run whose first eased value was negative and was
\* handed on as 0.
C22_Witness ==
  /\ \E r \in 1..Len(runs) :
       /\ runs[r].fractions = << AlmostOne, One >>
       /\ runs[r].annotateCnt > 0
  /\ \E r \in 1..Len(runs) :
       /\ Len(runs[r].fractions) = 3
       /\ runs[r].fractions[1] = 0
       /\ runs[r].fractions[3] = One

\* N of a run: animationSteps, taken as at least 1, with animation on, and
\* 1 with animation off.
FrameCount(config) ==
  IF ~config.animation THEN 1
  ELSE IF config.animationSteps < 1 THEN 1
  ELSE config.animationSteps

\* C23: a run draws at most N frames, is queued for another frame exactly
\* while it has drawn fewer than N, and at its k-th frame the completion
\* fraction is k/N.
C23_ExactlyNFrames ==
  \A r \in 1..Len(runs) :
    LET N == FrameCount(runs[r].config)
    IN /\ Len(runs[r].frames) <= N
       /\ Pending(r) <=> Len(runs[r].frames) < N
       /\ Cardinality({ k \in 1..Len(rafQueue) : rafQueue[k] = r }) <= 1
       /\ \A k \in 1..Len(runs[r].frames) :
            runs[r].frames[k] * N = k * Den(runs[r].config)

\* A run with animation on and animationSteps below 1 has drawn one frame
\* and asked for no other.
C23_Witness ==
  /\ runs # << >>
  /\ runs[1].config.animation
  /\ runs[1].config.animationSteps < 1
  /\ Len(runs[1].frames) = 1
  /\ rafQueue = << >>

\* The tooltip as doMouseMove leaves it when no entry matched.
EmptyTooltip == [innerHTML |-> {}, moved |-> << >>]

\* Runs started by the step on canvas c.
StartedOn(c) == { r \in RunsOn(c)' : r > Len(runs) }

\* C24: a step that starts a run on a canvas leaves the annotation list of
\* that canvas empty if the run has drawn no frame yet, and with the entries
\* of that run alone if its only frame was drawn at once; while the single
\* run of a canvas has not drawn its final frame the list is empty and
\* doMouseMove shows nothing wherever the pointer is.
C24_ListEmptiedBeforeFirstFrame ==
  /\ [][\A c \in CanvasIds : \A r \in StartedOn(c) :
          (\A q \in StartedOn(c) : q <= r) =>
            jsGraphAnnotate'[c] =
              (IF runs'[r].frames = << >> THEN << >> ELSE AloneEntries(r)')
       ]_vars
  /\ [](\A c \in CanvasIds : \A r \in RunsOn(c) :
         (RunsOn(c) = {r} /\ ~Finished(r)) =>
           /\ jsGraphAnnotate[c] = << >>
           /\ \A pos \in CompassPositions :
                doMouseMove(jsGraphAnnotate[c], runs[r].config, pos)
                  = EmptyTooltip)

\* The single run of a canvas with a pointer listener has drawn a frame and
\* waits for its final one.
C24_Witness ==
  \E c \in CanvasIds : \E r \in RunsOn(c) :
    /\ RunsOn(c) = {r}
    /\ runs[r].frames # << >>
    /\ ~Finished(r)
    /\ Pending(r)
    /\ \E k \in 1..Len(listeners[c]) : listeners[c][k].kind = "annotate"

LoopDone == calculatedScale.pc = "done"

\* A window at least as wide as twice its lower end.
WideWindow == scaleChart.maxSteps >= 2 * scaleChart.minSteps

DataValues(chart) ==
  { Val(chart.data[1][k]) : k \in DefinedIdx(chart.data[1]) }

\* C26: for Bar, HorizontalBar, Line, Radar and PolarArea without graphMin
\* and graphMax, and values that are not all equal, getValueBounds returns
\* the largest data value as maxValue and the smallest as minValue, also
\* when every value is negative.
C26_BoundsAreMinMax ==
  (/\ Measured
   /\ scaleChart.tpgraph
        \in {"Bar", "HorizontalBar", "Line", "Radar", "PolarArea"}
   /\ Cardinality(DataValues(scaleChart)) > 1) =>
    /\ \E v \in DataValues(scaleChart) : valueBounds.maxValue = Num(v)
    /\ \E v \in DataValues(scaleChart) : valueBounds.minValue = Num(v)
    /\ \A v \in DataValues(scaleChart) :
         /\ ~NumLess(valueBounds.maxValue, Num(v))
         /\ ~NumLess(Num(v), valueBounds.minValue)

\* The runs on canvas c that came through the gate of dynamicFunction.
DynamicRuns(c) == { r \in RunsOn(c) : runs[r].config.dynamicDisplay }

\* C27: in the dynamic-display record of a canvas the in-view flag and the
\* rendered flag change only from false to true, rendered implies in-view,
\* and the canvas, data, config and chart type of the first call stay; at
\* most one render with dynamicDisplay on is performed per canvas, with the
\* saved inputs, and once it has been performed a render call with
\* dynamicDisplay on starts no run, draws nothing and leaves the
\* annotation list and the listeners alone.
C27_DynamicRecordMonotone ==
  /\ [](\A c \in CanvasIds :
         IF dynamicDisplay[c] = << >> THEN DynamicRuns(c) = {}
         ELSE LET rec == dynamicDisplay[c]
              IN /\ Slot(rec, 2) = TRUE => Slot(rec, 1) = TRUE
                 /\ Cardinality(DynamicRuns(c)) =
                      (IF Slot(rec, 2) = TRUE THEN 1 ELSE 0)
                 /\ \A r \in DynamicRuns(c) :
                      /\ runs[r].data = Slot(rec, 3)
                      /\ runs[r].config = Slot(rec, 4)
                      /\ runs[r].tpgraph = Slot(rec, 6))
  /\ [][\A c \in CanvasIds :
          dynamicDisplay[c] # << >> =>
            LET rec == dynamicDisplay[c]
                new == dynamicDisplay'[c]
            IN /\ new # << >>
               /\ Slot(rec, 1) = TRUE => Slot(new, 1) = TRUE
               /\ Slot(rec, 2) = TRUE => Slot(new, 2) = TRUE
               /\ \A k \in {0, 3, 4, 5, 6} : Slot(new, k) = Slot(rec, k)
               /\ (/\ lastCall'.op = "render"
                   /\ lastCall'.canvas = c
                   /\ DynOn(lastCall'.options)
                   /\ Slot(rec, 2) = TRUE) =>
                    /\ runs' = runs
                    /\ rafQueue' = rafQueue
                    /\ jsGraphAnnotate' = jsGraphAnnotate
                    /\ listeners' = listeners
                    /\ new = rec
       ]_vars

\* A canvas rendered once through the gate has just been handed other
\* data by a render call with dynamicDisplay on, and nothing was started.
C27_Witness ==
  /\ lastCall.op = "render"
  /\ DynOn(lastCall.options)
  /\ LET rec == dynamicDisplay[lastCall.canvas]
     IN /\ Slot(rec, 2) = TRUE
        /\ Slot(rec, 3) # lastCall.chart.data
        /\ Cardinality(RunsOn(lastCall.canvas)) = 1
        /\ nCharts = 2

\* C28: a doMouseMove call leaves in the tooltip nothing of the call before
\* it: the tooltip is placed once per shape that contains the pointer now,
\* it is empty and has not been placed when no shape does, and the
\* annotation list is the same after the call as before.
C28_TooltipClearedFirst ==
  [][drawn # << >> =>
       /\ hitAnnotate' = hitAnnotate
       /\ Len(annotateDIV'.moved) = Cardinality(Containing(pointer'))
       /\ Containing(pointer') = {} => annotateDIV' = EmptyTooltip
       /\ Containing(pointer') # {} => annotateDIV'.innerHTML # {}
    ]_vars

\* The pointer is over no shape of a rendered chart that has shapes, and
\* the tooltip is empty.
C28_Witness ==
  /\ drawn # << >>
  /\ hitAnnotate # << >>
  /\ pointer # << >>
  /\ Containing(pointer) = {}
  /\ annotateDIV = EmptyTooltip

\* The runs on canvas c whose render had annotateDisplay on, oldest first.
AnnotatedRuns(c) ==
  SelectSeq([r \in 1..Len(runs) |-> r],
            LAMBDA r : runs[r].canvas = c
                         /\ runs[r].config.annotateDisplay = TRUE)

AnnotateOn(options) ==
  "annotateDisplay" \in DOMAIN options /\ options.annotateDisplay = TRUE

AnnotateListeners(c) ==
  SelectSeq(listeners[c], LAMBDA l : l.kind = "annotate")

\* C29: a render with annotateDisplay on adds one pointer listener to its
\* canvas, a render without adds none, and no listener is removed; a
\* pointer event on a canvas rendered k times with annotateDisplay on calls
\* doMouseMove k times, the n-th call with the config of the n-th of these
\* renders and every call against the annotation list the canvas has now.
C29_ListenerPerAnnotatedRender ==
  /\ [](\A c \in CanvasIds :
         /\ Len(AnnotateListeners(c)) = Len(AnnotatedRuns(c))
         /\ \A n \in 1..Len(AnnotatedRuns(c)) :
              AnnotateListeners(c)[n].config
                = runs[AnnotatedRuns(c)[n]].config)
  /\ [](lastCall.op = "pointer" =>
         LET c == lastCall.canvas
         IN /\ Len(lastCall.calls) = Len(AnnotatedRuns(c))
            /\ \A n \in 1..Len(lastCall.calls) :
                 /\ lastCall.calls[n].config
                      = runs[AnnotatedRuns(c)[n]].config
                 /\ lastCall.calls[n].list = jsGraphAnnotate[c])
  /\ [][\A c \in CanvasIds :
          /\ Len(listeners'[c]) >= Len(listeners[c])
          /\ SubSeq(listeners'[c], 1, Len(listeners[c])) = listeners[c]
          /\ Len(AnnotateListeners(c)') =
               Len(AnnotateListeners(c))
                 + (IF /\ lastCall'.op = "render"
                       /\ lastCall'.canvas = c
                       /\ AnnotateOn(lastCall'.options)
                    THEN 1 ELSE 0)
       ]_vars

\* A canvas rendered twice with annotateDisplay on, under two configs and
\* with two charts: one pointer event has called doMouseMove twice, the
\* first call with the config of the first render and against the entries
\* of the second.
C29_Witness ==
  /\ lastCall.op = "pointer"
  /\ Len(lastCall.calls) = 2
  /\ lastCall.calls[1].config # lastCall.calls[2].config
  /\ lastCall.calls[1].config = runs[AnnotatedRuns(lastCall.canvas)[1]].config
  /\ lastCall.calls[1].list # << >>
  /\ \A k \in 1..Len(lastCall.calls[1].list) :
       lastCall.calls[1].list[k].run = AnnotatedRuns(lastCall.canvas)[2]
  /\ runs[AnnotatedRuns(lastCall.canvas)[1]].data
       # runs[AnnotatedRuns(lastCall.canvas)[2]].data

\* The Chart objects the step constructs on canvas c: one per render call
\* and per saveCanvas on it, one per render that a scroll event starts.
Constructions(c) ==
  CASE lastCall'.op \in {"render", "save"} ->
         IF lastCall'.canvas = c THEN 1 ELSE 0
    [] lastCall'.op = "scroll" -> Cardinality(StartedOn(c))
    [] OTHER -> 0

\* C30: with window.devicePixelRatio = r every construction of Chart on a
\* canvas multiplies the backing width of the canvas by r, a construction
\* for a re-render, for a scroll-triggered render and for saveCanvas
\* included, so that the widths are the original widths times r to the
\* number of constructions; with devicePixelRatio undefined the width
\* stays.
C30_BackingSizeGrows ==
  /\ [](IF devicePixelRatio = 0
        THEN \A c \in CanvasIds : canvasWidth[c] = 1
        ELSE canvasWidth["cv1"] * canvasWidth["cv2"]
               = devicePixelRatio ^ nCharts)
  /\ [][\A c \in CanvasIds :
          canvasWidth'[c] =
            IF devicePixelRatio = 0 THEN canvasWidth[c]
            ELSE canvasWidth[c] * devicePixelRatio ^ Constructions(c)
       ]_vars

\* A canvas constructed on twice, the second time by saveCanvas, has four
\* times its original backing width at devicePixelRatio 2.
C30_Witness ==
  /\ lastCall.op = "save"
  /\ devicePixelRatio = 2
  /\ nCharts = 2
  /\ canvasWidth[lastCall.canvas] = 4

====
